---- MODULE Spec2Model ----
(***************************************************************************)
(* The Morse codec of services/morse-service (MorseTranslator) as a state  *)
(* machine: a step is one call of a codec operation on a caller's payload. *)
(*                                                                         *)
(* A JavaScript string is a sequence of one-character strings (its UTF-16  *)
(* code units); a JavaScript value is a record [t, s, n] with t its typeof *)
(* tag, s its string content and n its numeric/boolean content.            *)
(***************************************************************************)
EXTENDS Integers, Sequences, FiniteSets, TLC

VARIABLES op, input, output,           \* one call of the codec
          morseCodeMap, textMap, lastCall,  \* the codec's tables and its callers
          owner, connected, connPc,      \* the sockets of the chat backend
          connectedUsers, userSockets,   \* its presence maps
          rooms, isOnline,               \* rooms joined, users.is_online
          updateErrors,                  \* sockets whose status update threw
          sendMessageCalls, messages, emitted, \* send_message events
          joinRoomCalls, lastEmits,      \* join_room events, last events emitted
          directCall, directMessages, directEmitted, \* a send_direct_message
          migrations, migrationsTable,   \* registered migrations, table rows
          runPc, runIndex, runs,         \* the runMigrations call under way
          appliedMigrations, results, upInvoked, tableAtStart,
          reported, lastRollback,        \* what the calls returned
          issuedTokens, pairsIssued,     \* tokens the auth service signed
          authResult, refreshResult      \* its last answers

codecVars == <<op, input, output>>
callerVars == <<morseCodeMap, textMap, lastCall>>

presenceVars == <<owner, connected, connPc, connectedUsers, userSockets,
                  rooms, isOnline, updateErrors>>
chatVars == <<sendMessageCalls, messages, emitted>>
roomVars == <<joinRoomCalls, lastEmits>>
directVars == <<directCall, directMessages, directEmitted>>
socketVars == <<presenceVars, chatVars, roomVars, directVars>>

migrationVars == <<migrations, migrationsTable, runPc, runIndex, runs,
                   appliedMigrations, results, upInvoked, tableAtStart,
                   reported, lastRollback>>

authVars == <<issuedTokens, pairsIssued, authResult, refreshResult>>

vars == <<codecVars, callerVars, socketVars, migrationVars, authVars>>

\* what the actions of one part leave alone
nonCodecVars == <<callerVars, socketVars, migrationVars, authVars>>
nonCallerVars == <<codecVars, socketVars, migrationVars, authVars>>
nonSocketVars == <<codecVars, callerVars, migrationVars, authVars>>
nonMigrationVars == <<codecVars, callerVars, socketVars, authVars>>
nonAuthVars == <<codecVars, callerVars, socketVars, migrationVars>>
nonPresenceVars == <<chatVars, roomVars, directVars, nonSocketVars>>
nonChatVars == <<presenceVars, roomVars, directVars, nonSocketVars>>

---------------------------------------------------------------------------
(* Bounds of the explored inputs *)

MaxTextLen == 3
MaxMorseLen == 4
MaxTranslateLen == 2
NumCallers == 2
NumSockets == 2
NumEvents == 2
NumMigrations == 2
NumRuns == 2
MaxPairs == 2

---------------------------------------------------------------------------
(* JavaScript values *)

Str(s) == [t |-> "string", s |-> s, n |-> 0]
Undefined == [t |-> "undefined", s |-> <<>>, n |-> 0]
Null == [t |-> "null", s |-> <<>>, n |-> 0]
Num(k) == [t |-> "number", s |-> <<>>, n |-> k]
Bool(b) == [t |-> "boolean", s |-> <<>>, n |-> IF b THEN 1 ELSE 0]
\* an object or function; s is what ToString gives for it, kept as one piece
Obj(repr) == [t |-> "object", s |-> <<repr>>, n |-> 0]
Fn(repr) == [t |-> "function", s |-> <<repr>>, n |-> 0]

\* ToBoolean: the `!x` tests of the codec
Truthy(v) ==
    CASE v.t = "string" -> v.s # <<>>
      [] v.t = "number" -> v.n # 0
      [] v.t = "boolean" -> v.n = 1
      [] v.t \in {"undefined", "null"} -> FALSE
      [] OTHER -> TRUE

IsString(v) == v.t = "string"

---------------------------------------------------------------------------
(* The symbol table *)

\* the object literal MORSE_CODE_MAP, its entries in the order they are written

\* // Letters
Letters ==
    <<
        <<"A", <<".", "-">>>>,
        <<"B", <<"-", ".", ".", ".">>>>,
        <<"C", <<"-", ".", "-", ".">>>>,
        <<"D", <<"-", ".", ".">>>>,
        <<"E", <<".">>>>,
        <<"F", <<".", ".", "-", ".">>>>,
        <<"G", <<"-", "-", ".">>>>,
        <<"H", <<".", ".", ".", ".">>>>,
        <<"I", <<".", ".">>>>,
        <<"J", <<".", "-", "-", "-">>>>,
        <<"K", <<"-", ".", "-">>>>,
        <<"L", <<".", "-", ".", ".">>>>,
        <<"M", <<"-", "-">>>>,
        <<"N", <<"-", ".">>>>,
        <<"O", <<"-", "-", "-">>>>,
        <<"P", <<".", "-", "-", ".">>>>,
        <<"Q", <<"-", "-", ".", "-">>>>,
        <<"R", <<".", "-", ".">>>>,
        <<"S", <<".", ".", ".">>>>,
        <<"T", <<"-">>>>,
        <<"U", <<".", ".", "-">>>>,
        <<"V", <<".", ".", ".", "-">>>>,
        <<"W", <<".", "-", "-">>>>,
        <<"X", <<"-", ".", ".", "-">>>>,
        <<"Y", <<"-", ".", "-", "-">>>>,
        <<"Z", <<"-", "-", ".", ".">>>>
    >>

\* // Numbers
Numbers ==
    <<
        <<"0", <<"-", "-", "-", "-", "-">>>>,
        <<"1", <<".", "-", "-", "-", "-">>>>,
        <<"2", <<".", ".", "-", "-", "-">>>>,
        <<"3", <<".", ".", ".", "-", "-">>>>,
        <<"4", <<".", ".", ".", ".", "-">>>>,
        <<"5", <<".", ".", ".", ".", ".">>>>,
        <<"6", <<"-", ".", ".", ".", ".">>>>,
        <<"7", <<"-", "-", ".", ".", ".">>>>,
        <<"8", <<"-", "-", "-", ".", ".">>>>,
        <<"9", <<"-", "-", "-", "-", ".">>>>
    >>

\* // Punctuation, and the space
Punctuation ==
    <<
        <<".", <<".", "-", ".", "-", ".", "-">>>>,
        <<",", <<"-", "-", ".", ".", "-", "-">>>>,
        <<"?", <<".", ".", "-", "-", ".", ".">>>>,
        <<"'", <<".", "-", "-", "-", "-", ".">>>>,
        <<"!", <<"-", ".", "-", ".", "-", "-">>>>,
        <<"/", <<"-", ".", ".", "-", ".">>>>,
        <<"(", <<"-", ".", "-", "-", ".">>>>,
        <<")", <<"-", ".", "-", "-", ".", "-">>>>,
        <<"&", <<".", "-", ".", ".", ".">>>>,
        <<":", <<"-", "-", "-", ".", ".", ".">>>>,
        <<";", <<"-", ".", "-", ".", "-", ".">>>>,
        <<"=", <<"-", ".", ".", ".", "-">>>>,
        <<"+", <<".", "-", ".", "-", ".">>>>,
        <<"-", <<"-", ".", ".", ".", ".", "-">>>>,
        <<"_", <<".", ".", "-", "-", ".", "-">>>>,
        <<"\"", <<".", "-", ".", ".", "-", ".">>>>,
        <<"$", <<".", ".", ".", "-", ".", ".", "-">>>>,
        <<"@", <<".", "-", "-", ".", "-", ".">>>>,
        <<" ", <<"/">>>>
    >>

\* a typing slip in the literal: ')' given the pattern of '('
MORSE_CODE_MAP_Typo ==
    Letters \o Numbers \o
        [i \in 1..Len(Punctuation) |->
            IF Punctuation[i][1] = ")"
            THEN <<")", <<"-", ".", "-", "-", ".">>>>
            ELSE Punctuation[i]]

MORSE_CODE_MAP == Letters \o Numbers \o Punctuation

Digits == <<"0", "1", "2", "3", "4", "5", "6", "7", "8", "9">>

\* an object is the sequence of its own <<key, value>> entries in creation
\* order; keys are property names

HasOwnProperty(obj, k) == \E i \in 1..Len(obj) : obj[i][1] = k

OwnValue(obj, k) == obj[CHOOSE i \in 1..Len(obj) : obj[i][1] = k][2]

\* a property name that is a canonical array index (here: one digit)
IsArrayIndex(k) == \E i \in 1..Len(Digits) : Digits[i] = k

\* a slip: the keys taken in creation order throughout
ObjectKeys_CreationOrder(obj) == [i \in 1..Len(obj) |-> obj[i][1]]

\* Object.keys: integer-index keys in ascending numeric order, then the
\* remaining string keys in creation order
ObjectKeys(obj) ==
    LET ints == SelectSeq(Digits, LAMBDA d : HasOwnProperty(obj, d))
        rest == SelectSeq(obj, LAMBDA e : ~IsArrayIndex(e[1]))
    IN  ints \o [i \in 1..Len(rest) |-> rest[i][1]]

ObjectEntries(obj) ==
    LET ks == ObjectKeys(obj)
    IN  [i \in 1..Len(ks) |-> <<ks[i], OwnValue(obj, ks[i])>>]

\* Object.fromEntries: the keys in the order they first appear, each with
\* the value of its last entry (a later entry overwrites an earlier one)
FromEntries(pairs) ==
    LET idx == [i \in 1..Len(pairs) |-> i]
        firsts == SelectSeq(idx,
                      LAMBDA i : \A j \in 1..(i - 1) : pairs[j][1] # pairs[i][1])
        last(k) == CHOOSE i \in 1..Len(pairs) :
                       /\ pairs[i][1] = k
                       /\ \A j \in (i + 1)..Len(pairs) : pairs[j][1] # k
    IN  [n \in 1..Len(firsts) |->
            <<pairs[firsts[n]][1], pairs[last(pairs[firsts[n]][1])][2]>>]

\* the reverse table: keys are Morse patterns, values single characters
TEXT_MAP ==
    LET es == ObjectEntries(MORSE_CODE_MAP)
    IN  FromEntries([i \in 1..Len(es) |-> <<es[i][2], es[i][1]>>])

\* names every ordinary object inherits from Object.prototype (a sample)
STR_constructor == <<"c", "o", "n", "s", "t", "r", "u", "c", "t", "o", "r">>
STR_toString == <<"t", "o", "S", "t", "r", "i", "n", "g">>
STR_proto == <<"_", "_", "p", "r", "o", "t", "o", "_", "_">>

ObjectPrototype(k) ==
    CASE k = STR_constructor -> Fn("function Object() { [native code] }")
      [] k = STR_toString -> Fn("function toString() { [native code] }")
      [] k = STR_proto -> Obj("[object Object]")
      [] OTHER -> Undefined

\* MORSE_CODE_MAP[char]: the own property, else the inherited one, else
\* undefined; a one-character name is never inherited
CharGet(obj, c) ==
    IF HasOwnProperty(obj, c) THEN Str(OwnValue(obj, c)) ELSE Undefined

\* TEXT_MAP[morseChar]: the own property, else the inherited one
TokenGet(obj, tok) ==
    IF HasOwnProperty(obj, tok) THEN Str(<<OwnValue(obj, tok)>>)
    ELSE ObjectPrototype(tok)

---------------------------------------------------------------------------
(* String primitives *)

LowerCase == <<"a", "b", "c", "d", "e", "f", "g", "h", "i", "j", "k", "l", "m",
               "n", "o", "p", "q", "r", "s", "t", "u", "v", "w", "x", "y", "z">>
UpperCase == <<"A", "B", "C", "D", "E", "F", "G", "H", "I", "J", "K", "L", "M",
               "N", "O", "P", "Q", "R", "S", "T", "U", "V", "W", "X", "Y", "Z">>

\* String.prototype.toUpperCase on one code unit: the result may be longer
\* than one unit (the sharp s becomes SS)
UpperOfChar(c) ==
    IF \E i \in 1..Len(LowerCase) : LowerCase[i] = c
    THEN <<UpperCase[CHOOSE i \in 1..Len(LowerCase) : LowerCase[i] = c]>>
    ELSE IF c = "ß" THEN <<"S", "S">>
    ELSE <<c>>

RECURSIVE ToUpperCase(_)
ToUpperCase(s) ==
    IF s = <<>> THEN <<>> ELSE UpperOfChar(Head(s)) \o ToUpperCase(Tail(s))

\* the characters matched by \s and removed by trim (a sample)
WhiteSpace == {" ", "\t", "\n"}

RECURSIVE TrimStart(_)
TrimStart(s) ==
    IF s # <<>> /\ Head(s) \in WhiteSpace THEN TrimStart(Tail(s)) ELSE s

RECURSIVE TrimEnd(_)
TrimEnd(s) ==
    IF s # <<>> /\ s[Len(s)] \in WhiteSpace
    THEN TrimEnd(SubSeq(s, 1, Len(s) - 1)) ELSE s

Trim(s) == TrimEnd(TrimStart(s))

\* replace(/\s+/g, ' '): every maximal run of whitespace becomes one space
RECURSIVE CollapseWhiteSpace(_)
CollapseWhiteSpace(s) ==
    IF s = <<>> THEN <<>>
    ELSE IF Head(s) \in WhiteSpace
         THEN <<" ">> \o CollapseWhiteSpace(TrimStart(s))
         ELSE <<Head(s)>> \o CollapseWhiteSpace(Tail(s))

\* split(sep) for a one-character separator: n separators give n+1 pieces
RECURSIVE SplitAcc(_, _, _)
SplitAcc(s, sep, cur) ==
    IF s = <<>> THEN <<cur>>
    ELSE IF Head(s) = sep THEN <<cur>> \o SplitAcc(Tail(s), sep, <<>>)
         ELSE SplitAcc(Tail(s), sep, Append(cur, Head(s)))

Split(s, sep) == SplitAcc(s, sep, <<>>)

\* a slip: the separator written after every piece, the last one included
RECURSIVE Join_TrailingSeparator(_, _)
Join_TrailingSeparator(parts, sep) ==
    IF parts = <<>> THEN <<>>
    ELSE Head(parts) \o sep \o Join_TrailingSeparator(Tail(parts), sep)

\* join(sep) of an array of strings
RECURSIVE Join(_, _)
Join(parts, sep) ==
    IF parts = <<>> THEN <<>>
    ELSE IF Len(parts) = 1 THEN Head(parts)
         ELSE Head(parts) \o sep \o Join(Tail(parts), sep)

---------------------------------------------------------------------------
(* Outcomes of a call *)

Return(v) == [kind |-> "return", value |-> v, error |-> "", detail |-> <<>>]
Throw(e, d) == [kind |-> "throw", value |-> Undefined, error |-> e, detail |-> d]

\* the least element of a non-empty set of indices
FirstOf(S) == CHOOSE i \in S : \A j \in S : i <= j

---------------------------------------------------------------------------
(* MorseTranslator *)

\* a run of space characters replaced by one space
RECURSIVE CollapseSpaceRuns(_)
CollapseSpaceRuns(s) ==
    IF s = <<>> THEN <<>>
    ELSE IF Head(s) = " " /\ Len(s) > 1 /\ s[2] = " "
         THEN CollapseSpaceRuns(Tail(s))
         ELSE <<Head(s)>> \o CollapseSpaceRuns(Tail(s))

\* a change: runs of spaces collapsed before encoding
textToMorse_CollapseSpaces(text) ==
    IF ~Truthy(text) \/ ~IsString(text)
    THEN Throw("InvalidInput", <<>>)
    ELSE LET chars == CollapseSpaceRuns(ToUpperCase(text.s))
             bad == {i \in 1..Len(chars) :
                        /\ chars[i] # " "
                        /\ ~Truthy(CharGet(MORSE_CODE_MAP, chars[i]))}
         IN  IF bad # {}
             THEN Throw("UnsupportedCharacter", <<chars[FirstOf(bad)]>>)
             ELSE Return(Str(Join(
                      [i \in 1..Len(chars) |->
                          IF chars[i] = " " THEN <<"/">>
                          ELSE CharGet(MORSE_CODE_MAP, chars[i]).s],
                      <<" ">>)))

\* a slip: the text not uppercased before the lookup
textToMorse_NoUpperCase(text) ==
    IF ~Truthy(text) \/ ~IsString(text)
    THEN Throw("InvalidInput", <<>>)
    ELSE LET chars == text.s
             bad == {i \in 1..Len(chars) :
                        /\ chars[i] # " "
                        /\ ~Truthy(CharGet(MORSE_CODE_MAP, chars[i]))}
         IN  IF bad # {}
             THEN Throw("UnsupportedCharacter", <<chars[FirstOf(bad)]>>)
             ELSE Return(Str(Join(
                      [i \in 1..Len(chars) |->
                          IF chars[i] = " " THEN <<"/">>
                          ELSE CharGet(MORSE_CODE_MAP, chars[i]).s],
                      <<" ">>)))

\* a slip: no check of the argument before translating
textToMorse_NoInputCheck(text) ==
    LET chars == ToUpperCase(text.s)
        bad == {i \in 1..Len(chars) :
                   /\ chars[i] # " "
                   /\ ~Truthy(CharGet(MORSE_CODE_MAP, chars[i]))}
    IN  IF bad # {}
        THEN Throw("UnsupportedCharacter", <<chars[FirstOf(bad)]>>)
        ELSE Return(Str(Join(
                 [i \in 1..Len(chars) |->
                     IF chars[i] = " " THEN <<"/">>
                     ELSE CharGet(MORSE_CODE_MAP, chars[i]).s],
                 <<" ">>)))

\* a slip: an unsupported character translated to a placeholder
textToMorse_Placeholder(text) ==
    IF ~Truthy(text) \/ ~IsString(text)
    THEN Throw("InvalidInput", <<>>)
    ELSE LET chars == ToUpperCase(text.s)
         IN  Return(Str(Join(
                 [i \in 1..Len(chars) |->
                     IF chars[i] = " " THEN <<"/">>
                     ELSE IF Truthy(CharGet(MORSE_CODE_MAP, chars[i]))
                          THEN CharGet(MORSE_CODE_MAP, chars[i]).s
                          ELSE <<"?">>],
                 <<" ">>)))

textToMorse(text) ==
    IF ~Truthy(text) \/ ~IsString(text)
    THEN Throw("InvalidInput", <<>>)
    ELSE LET chars == ToUpperCase(text.s)
             bad == {i \in 1..Len(chars) :
                        /\ chars[i] # " "
                        /\ ~Truthy(CharGet(MORSE_CODE_MAP, chars[i]))}
         IN  IF bad # {}
             THEN Throw("UnsupportedCharacter", <<chars[FirstOf(bad)]>>)
             ELSE Return(Str(Join(
                      [i \in 1..Len(chars) |->
                          IF chars[i] = " " THEN <<"/">>
                          ELSE CharGet(MORSE_CODE_MAP, chars[i]).s],
                      <<" ">>)))

cleanMorseOf(morse) == CollapseWhiteSpace(Trim(morse))

\* a slip: the input split without normalising its whitespace first
morseToText_NoClean(morse) ==
    IF ~Truthy(morse) \/ ~IsString(morse)
    THEN Throw("InvalidInput", <<>>)
    ELSE LET toks == Split(morse.s, " ")
             bad == {i \in 1..Len(toks) :
                        /\ toks[i] # <<"/">>
                        /\ ~Truthy(TokenGet(TEXT_MAP, toks[i]))}
         IN  IF bad # {}
             THEN Throw("InvalidMorseCode", toks[FirstOf(bad)])
             ELSE Return(Str(Join(
                      [i \in 1..Len(toks) |->
                          IF toks[i] = <<"/">> THEN <<" ">>
                          ELSE TokenGet(TEXT_MAP, toks[i]).s],
                      <<>>)))

\* a slip: the decoded characters joined with the separator of the encoder
morseToText_JoinSpace(morse) ==
    IF ~Truthy(morse) \/ ~IsString(morse)
    THEN Throw("InvalidInput", <<>>)
    ELSE LET toks == Split(cleanMorseOf(morse.s), " ")
             bad == {i \in 1..Len(toks) :
                        /\ toks[i] # <<"/">>
                        /\ ~Truthy(TokenGet(TEXT_MAP, toks[i]))}
         IN  IF bad # {}
             THEN Throw("InvalidMorseCode", toks[FirstOf(bad)])
             ELSE Return(Str(Join(
                      [i \in 1..Len(toks) |->
                          IF toks[i] = <<"/">> THEN <<" ">>
                          ELSE TokenGet(TEXT_MAP, toks[i]).s],
                      <<" ">>)))

morseToText(morse) ==
    IF ~Truthy(morse) \/ ~IsString(morse)
    THEN Throw("InvalidInput", <<>>)
    ELSE LET toks == Split(cleanMorseOf(morse.s), " ")
             bad == {i \in 1..Len(toks) :
                        /\ toks[i] # <<"/">>
                        /\ ~Truthy(TokenGet(TEXT_MAP, toks[i]))}
         IN  IF bad # {}
             THEN Throw("InvalidMorseCode", toks[FirstOf(bad)])
             ELSE Return(Str(Join(
                      [i \in 1..Len(toks) |->
                          IF toks[i] = <<"/">> THEN <<" ">>
                          ELSE TokenGet(TEXT_MAP, toks[i]).s],
                      <<>>)))

\* a slip: the word separator left out of the character class
validMorsePattern_NoSlash(s) ==
    /\ Len(s) >= 1
    /\ \A i \in 1..Len(s) : s[i] \in {".", "-"} \cup WhiteSpace

\* /^[.\-\s\/]+$/
validMorsePattern(s) ==
    /\ Len(s) >= 1
    /\ \A i \in 1..Len(s) : s[i] \in {".", "-", "/"} \cup WhiteSpace

\* a change: every token checked against the reverse table
validateMorseCode_Semantic(morse) ==
    IF ~Truthy(morse) \/ ~IsString(morse) THEN FALSE
    ELSE /\ validMorsePattern(morse.s)
         /\ LET toks == Split(cleanMorseOf(morse.s), " ")
            IN  \A i \in 1..Len(toks) :
                    toks[i] = <<"/">> \/ HasOwnProperty(TEXT_MAP, toks[i])

\* a slip: the pattern tested on the trimmed string
validateMorseCode_Trimmed(morse) ==
    IF ~Truthy(morse) \/ ~IsString(morse) THEN FALSE
    ELSE Trim(morse.s) # <<>> /\ validMorsePattern(Trim(morse.s))

validateMorseCode(morse) ==
    IF ~Truthy(morse) \/ ~IsString(morse) THEN FALSE
    ELSE validMorsePattern(morse.s)

\* a slip: the text not uppercased before the lookup
validateText_NoUpperCase(text) ==
    IF ~Truthy(text) \/ ~IsString(text) THEN FALSE
    ELSE \A i \in 1..Len(text.s) :
             text.s[i] = " " \/ HasOwnProperty(MORSE_CODE_MAP, text.s[i])

validateText(text) ==
    IF ~Truthy(text) \/ ~IsString(text) THEN FALSE
    ELSE LET upperText == ToUpperCase(text.s)
         IN  \A i \in 1..Len(upperText) :
                 upperText[i] = " " \/ HasOwnProperty(MORSE_CODE_MAP, upperText[i])

getSupportedCharacters ==
    SelectSeq(ObjectKeys(MORSE_CODE_MAP), LAMBDA char : char # " ")

\* the response of translate, without its timestamp
Response(original, translated, direction) ==
    [original |-> original, translated |-> translated, direction |-> direction]

\* a slip: the text handed to textToMorse without validateText
translate_NoValidateText(request) ==
    IF request.direction = "text-to-morse"
    THEN IF ~Truthy(request.text) THEN Throw("MissingInput", <<>>)
         ELSE LET r == textToMorse(request.text)
              IN  IF r.kind = "throw" THEN r
                  ELSE Return(Response(request.text, r.value,
                                       request.direction))
    ELSE IF ~Truthy(request.morse) THEN Throw("MissingInput", <<>>)
         ELSE IF ~validateMorseCode(request.morse)
              THEN Throw("InvalidFormat", <<>>)
              ELSE LET r == morseToText(request.morse)
                   IN  IF r.kind = "throw" THEN r
                       ELSE Return(Response(request.morse, r.value,
                                            request.direction))

translate(request) ==
    IF request.direction = "text-to-morse"
    THEN IF ~Truthy(request.text) THEN Throw("MissingInput", <<>>)
         ELSE IF ~validateText(request.text)
              THEN Throw("UnsupportedCharacters", <<>>)
              ELSE LET r == textToMorse(request.text)
                   IN  IF r.kind = "throw" THEN r
                       ELSE Return(Response(request.text, r.value,
                                            request.direction))
    ELSE IF ~Truthy(request.morse) THEN Throw("MissingInput", <<>>)
         ELSE IF ~validateMorseCode(request.morse)
              THEN Throw("InvalidFormat", <<>>)
              ELSE LET r == morseToText(request.morse)
                   IN  IF r.kind = "throw" THEN r
                       ELSE Return(Response(request.morse, r.value,
                                            request.direction))

\* the route handing every body to translate, whatever its direction
postTranslate_NoDirectionCheck(body) == translate(body)

\* POST /translate: the direction of the body is checked, then translate
postTranslate(body) ==
    IF body.direction \notin {"text-to-morse", "morse-to-text"}
    THEN Throw("InvalidDirection", <<>>)
    ELSE translate(body)

---------------------------------------------------------------------------
(* The arguments the calls are made with *)

StringsUpTo(A, n) == UNION {[1..k -> A] : k \in 0..n}

TableKeys == {MORSE_CODE_MAP[i][1] : i \in 1..Len(MORSE_CODE_MAP)}

\* characters outside the table: lower case, unsupported, whitespace
OtherChars == {"a", "e", "o", "s", "z", "€", "ß", "#", "\t", "\n"}

TextAlphabet == {"S", "O", "E", "s", "1", "/", " ", ".", "€", "ß"}

MorseAlphabet == {".", "-", "/", " ", "\t", "x"}

\* the examples of the documentation
STR_SOS == <<"S", "O", "S">>
STR_sos == <<"s", "o", "s">>
STR_HI_THERE == <<"H", "I", " ", "T", "H", "E", "R", "E">>
STR_HELLO_EURO == <<"H", "E", "L", "L", "O", "€">>
STR_HI__THERE == <<"H", "I", " ", " ", "T", "H", "E", "R", "E">>
STR_six_six == <<".", ".", ".", ".", ".", ".", " ", ".", ".", ".", ".", ".", ".">>
STR_sos_morse == <<".", ".", ".", " ", "-", "-", "-", " ", ".", ".", ".">>
STR_unassigned == <<".", ".", "-", "-">>

TextStrings ==
    StringsUpTo(TextAlphabet, MaxTextLen)
        \cup {<<c>> : c \in TableKeys \cup OtherChars}
        \cup {<<c, d>> : c \in TableKeys, d \in TableKeys}
        \cup {STR_SOS, STR_sos, STR_HI_THERE, STR_HELLO_EURO, STR_HI__THERE}

MorseStrings ==
    StringsUpTo(MorseAlphabet, MaxMorseLen)
        \cup {MORSE_CODE_MAP[i][2] : i \in 1..Len(MORSE_CODE_MAP)}
        \cup {STR_six_six, STR_sos_morse, STR_unassigned,
              STR_constructor, STR_toString, STR_proto,
              STR_constructor \o <<" ">> \o STR_unassigned,
              <<".", " ">> \o STR_proto}

NonStrings ==
    {Undefined, Null, Num(0), Num(1), Bool(FALSE), Bool(TRUE),
     Obj("[object Object]")}

TextArgs == {Str(s) : s \in TextStrings} \cup NonStrings
MorseArgs == {Str(s) : s \in MorseStrings} \cup NonStrings

Directions == {"text-to-morse", "morse-to-text", "other"}

TranslateTexts ==
    {Str(s) : s \in StringsUpTo({"e", "€", " "}, MaxTranslateLen)
                      \cup {STR_sos, STR_HELLO_EURO}}
        \cup NonStrings

TranslateMorses ==
    {Str(s) : s \in StringsUpTo({".", "/", " ", "x"}, MaxTranslateLen)
                      \cup {STR_six_six, STR_sos_morse, STR_unassigned,
                            STR_constructor}}
        \cup NonStrings

\* a caller's payload: the body of a request (text, morse, direction); the
\* single-argument operations take their argument from its text or morse
Payloads ==
    [text : TextArgs, morse : {Undefined}, direction : {"text-to-morse"}]
        \cup [text : {Undefined}, morse : MorseArgs, direction : {"morse-to-text"}]
        \cup [text : TranslateTexts, morse : TranslateMorses, direction : Directions]

---------------------------------------------------------------------------
(* The chat backend's socket server (be/src/sockets/index.ts): its sockets,
   its users and rooms, and the state it keeps about them *)

Sockets == 1..NumSockets
Events == 1..NumEvents
Users == {"u1", "u2"}
Rooms == {"r1", "r2"}

\* the rows of room_members: u2 is in both rooms, u1 in r1 only
RoomMembers == {<<"u1", "r1">>, <<"u2", "r1">>, <<"u2", "r2">>}

RoomsOf(user) == {r \in Rooms : <<user, r>> \in RoomMembers}

\* new Map(): no key
EmptyMap == [k \in {} |-> {}]

\* Map.has, and the Set under a key with one id added or deleted
Has(map, key) == key \in DOMAIN map

MapSet(map, key, value) ==
    [k \in DOMAIN map \cup {key} |-> IF k = key THEN value ELSE map[k]]

MapDelete(map, key) == [k \in DOMAIN map \ {key} |-> map[k]]

\* no send_message event received
NoCall == [pc |-> "none", socket |-> 0, roomId |-> "", text |-> "",
           morse |-> "", member |-> "none", insert |-> "none"]

\* no send_direct_message event received
NoDirectCall == [pc |-> "none", socket |-> 0, receiverId |-> "", text |-> "",
                 morse |-> "", insert |-> "none", receivers |-> {}]

\* the server as started: no socket has connected, no event was received
SocketsIdle ==
    /\ owner = [s \in Sockets |-> "u1"]
    /\ connected = [s \in Sockets |-> FALSE]
    /\ connPc = [s \in Sockets |-> "none"]
    /\ connectedUsers = {}
    /\ userSockets = EmptyMap
    /\ rooms = [s \in Sockets |-> {}]
    /\ isOnline = [u \in Users |-> FALSE]
    /\ updateErrors = {}
    /\ sendMessageCalls = [e \in Events |-> NoCall]
    /\ messages = {}
    /\ emitted = [e \in Events |-> <<>>]
    /\ joinRoomCalls = {}
    /\ lastEmits = {}
    /\ directCall = NoDirectCall
    /\ directMessages = {}
    /\ directEmitted = <<>>

---------------------------------------------------------------------------
(* The migration manager of the shared database services
   (MigrationManager): the registered migrations, the rows of the
   migrations table, and one call of runMigrations at a time *)

MigrationIds == 1..NumMigrations

\* sequences of distinct migration ids of a length
DistinctIds(n) ==
    {q \in [1..n -> MigrationIds] :
        \A i, j \in 1..n : i # j => q[i] # q[j]}

\* Array.includes
Includes(seq, x) == \E i \in DOMAIN seq : seq[i] = x

\* no MigrationResult
NoResult == [id |-> 0, status |-> "none"]

\* a manager on which no method has been called
ManagerIdle ==
    /\ runPc = "idle"
    /\ runIndex = 0
    /\ runs = 0
    /\ appliedMigrations = <<>>
    /\ results = <<>>
    /\ upInvoked = {}
    /\ tableAtStart = <<>>
    /\ reported = [id \in MigrationIds |-> "none"]
    /\ lastRollback = NoResult

\* no migration is registered for the other services
MigrationsIdle ==
    /\ migrations = <<>>
    /\ migrationsTable = <<>>
    /\ ManagerIdle

---------------------------------------------------------------------------
(* The auth service's tokens (auth-service utils/jwt.ts): a token is what
   jwt.sign put in it, and whether it carries the service's signature *)

\* no token presented, no request answered
NoToken == [type |-> "none", sub |-> "", serial |-> 0, signed |-> FALSE]

NoAnswer == [token |-> NoToken, status |-> "none", user |-> ""]

AuthIdle ==
    /\ issuedTokens = {}
    /\ pairsIssued = 0
    /\ authResult = NoAnswer
    /\ refreshResult = NoAnswer

---------------------------------------------------------------------------
(* The state machine: a caller holds a payload and calls one operation with
   it; op is the operation called, output its outcome *)

\* the module as loaded: the two tables built, no call made by any caller
CallersIdle ==
    /\ morseCodeMap = MORSE_CODE_MAP
    /\ textMap = TEXT_MAP
    /\ lastCall = [c \in 1..NumCallers |->
                      [op |-> "none",
                       arg |-> [text |-> Undefined, morse |-> Undefined,
                                direction |-> "none"],
                       result |-> Return(Undefined)]]

Init ==
    /\ op = "none"
    /\ input \in Payloads
    /\ output = Return(Undefined)
    /\ CallersIdle
    /\ SocketsIdle
    /\ MigrationsIdle
    /\ AuthIdle

TextToMorse ==
    /\ op = "none"
    /\ op' = "textToMorse"
    /\ output' = textToMorse(input.text)
    /\ UNCHANGED input
    /\ UNCHANGED nonCodecVars

MorseToText ==
    /\ op = "none"
    /\ op' = "morseToText"
    /\ output' = morseToText(input.morse)
    /\ UNCHANGED input
    /\ UNCHANGED nonCodecVars

ValidateMorseCode ==
    /\ op = "none"
    /\ op' = "validateMorseCode"
    /\ output' = Return(Bool(validateMorseCode(input.morse)))
    /\ UNCHANGED input
    /\ UNCHANGED nonCodecVars

ValidateText ==
    /\ op = "none"
    /\ op' = "validateText"
    /\ output' = Return(Bool(validateText(input.text)))
    /\ UNCHANGED input
    /\ UNCHANGED nonCodecVars

GetSupportedCharacters ==
    /\ op = "none"
    /\ op' = "getSupportedCharacters"
    /\ output' = Return(getSupportedCharacters)
    /\ UNCHANGED input
    /\ UNCHANGED nonCodecVars

Translate ==
    /\ op = "none"
    /\ op' = "translate"
    /\ output' = translate(input)
    /\ UNCHANGED input
    /\ UNCHANGED nonCodecVars

PostTranslate ==
    /\ op = "none"
    /\ op' = "POST /translate"
    /\ output' = postTranslate(input)
    /\ UNCHANGED input
    /\ UNCHANGED nonCodecVars

Next ==
    \/ TextToMorse
    \/ MorseToText
    \/ ValidateMorseCode
    \/ ValidateText
    \/ GetSupportedCharacters
    \/ Translate
    \/ PostTranslate

Spec == Init /\ [][Next]_vars

---------------------------------------------------------------------------
(* The codec called by several callers, one synchronous call at a time.
   The two tables are the state of the loaded module; every operation reads
   the tables as they are when it is called. *)

textToMorseOn(map, text) ==
    IF ~Truthy(text) \/ ~IsString(text)
    THEN Throw("InvalidInput", <<>>)
    ELSE LET chars == ToUpperCase(text.s)
             bad == {i \in 1..Len(chars) :
                        /\ chars[i] # " "
                        /\ ~Truthy(CharGet(map, chars[i]))}
         IN  IF bad # {}
             THEN Throw("UnsupportedCharacter", <<chars[FirstOf(bad)]>>)
             ELSE Return(Str(Join(
                      [i \in 1..Len(chars) |->
                          IF chars[i] = " " THEN <<"/">>
                          ELSE CharGet(map, chars[i]).s],
                      <<" ">>)))

morseToTextOn(rev, morse) ==
    IF ~Truthy(morse) \/ ~IsString(morse)
    THEN Throw("InvalidInput", <<>>)
    ELSE LET toks == Split(cleanMorseOf(morse.s), " ")
             bad == {i \in 1..Len(toks) :
                        /\ toks[i] # <<"/">>
                        /\ ~Truthy(TokenGet(rev, toks[i]))}
         IN  IF bad # {}
             THEN Throw("InvalidMorseCode", toks[FirstOf(bad)])
             ELSE Return(Str(Join(
                      [i \in 1..Len(toks) |->
                          IF toks[i] = <<"/">> THEN <<" ">>
                          ELSE TokenGet(rev, toks[i]).s],
                      <<>>)))

validateTextOn(map, text) ==
    IF ~Truthy(text) \/ ~IsString(text) THEN FALSE
    ELSE LET upperText == ToUpperCase(text.s)
         IN  \A i \in 1..Len(upperText) :
                 upperText[i] = " " \/ HasOwnProperty(map, upperText[i])

\* a slip: the space left in the listing
getSupportedCharactersOn_NoFilter(map) == ObjectKeys(map)

getSupportedCharactersOn(map) ==
    SelectSeq(ObjectKeys(map), LAMBDA char : char # " ")

translateOn(map, rev, request) ==
    IF request.direction = "text-to-morse"
    THEN IF ~Truthy(request.text) THEN Throw("MissingInput", <<>>)
         ELSE IF ~validateTextOn(map, request.text)
              THEN Throw("UnsupportedCharacters", <<>>)
              ELSE LET r == textToMorseOn(map, request.text)
                   IN  IF r.kind = "throw" THEN r
                       ELSE Return(Response(request.text, r.value,
                                            request.direction))
    ELSE IF ~Truthy(request.morse) THEN Throw("MissingInput", <<>>)
         ELSE IF ~validateMorseCode(request.morse)
              THEN Throw("InvalidFormat", <<>>)
              ELSE LET r == morseToTextOn(rev, request.morse)
                   IN  IF r.kind = "throw" THEN r
                       ELSE Return(Response(request.morse, r.value,
                                            request.direction))

\* a change: the space removed from the table instead of filtered from the
\* listing
TablesAfterCall_DeleteSpace(name, map, rev) ==
    IF name = "getSupportedCharacters"
    THEN <<SelectSeq(map, LAMBDA e : e[1] # " "), rev>>
    ELSE <<map, rev>>

\* the tables after a call of the named operation: no operation assigns to
\* MORSE_CODE_MAP or TEXT_MAP or to a property of either
TablesAfterCall(name, map, rev) == <<map, rev>>

NoPayload == [text |-> Undefined, morse |-> Undefined, direction |-> "none"]

\* what the callers call the operations with
CallPayloads ==
    {[text |-> Str(STR_sos), morse |-> Str(STR_sos_morse),
      direction |-> "text-to-morse"],
     [text |-> Str(<<"E", " ">>), morse |-> Str(STR_six_six),
      direction |-> "morse-to-text"],
     [text |-> Str(STR_HELLO_EURO), morse |-> Str(<<"/">>),
      direction |-> "morse-to-text"],
     [text |-> Null, morse |-> Str(STR_constructor),
      direction |-> "text-to-morse"],
     [text |-> Str(<<>>), morse |-> Undefined,
      direction |-> "morse-to-text"]}

\* the record of a caller's call: the operation, the payload, the outcome
Recorded(name, arg, result) == [op |-> name, arg |-> arg, result |-> result]

CallTextToMorse ==
    \E c \in 1..NumCallers, arg \in CallPayloads :
        /\ lastCall' = [lastCall EXCEPT ![c] =
               Recorded("textToMorse", arg,
                        textToMorseOn(morseCodeMap, arg.text))]
        /\ morseCodeMap' = TablesAfterCall("textToMorse", morseCodeMap, textMap)[1]
        /\ textMap' = TablesAfterCall("textToMorse", morseCodeMap, textMap)[2]
        /\ UNCHANGED nonCallerVars

CallMorseToText ==
    \E c \in 1..NumCallers, arg \in CallPayloads :
        /\ lastCall' = [lastCall EXCEPT ![c] =
               Recorded("morseToText", arg,
                        morseToTextOn(textMap, arg.morse))]
        /\ morseCodeMap' = TablesAfterCall("morseToText", morseCodeMap, textMap)[1]
        /\ textMap' = TablesAfterCall("morseToText", morseCodeMap, textMap)[2]
        /\ UNCHANGED nonCallerVars

CallValidateText ==
    \E c \in 1..NumCallers, arg \in CallPayloads :
        /\ lastCall' = [lastCall EXCEPT ![c] =
               Recorded("validateText", arg,
                        Return(Bool(validateTextOn(morseCodeMap, arg.text))))]
        /\ morseCodeMap' = TablesAfterCall("validateText", morseCodeMap, textMap)[1]
        /\ textMap' = TablesAfterCall("validateText", morseCodeMap, textMap)[2]
        /\ UNCHANGED nonCallerVars

CallValidateMorseCode ==
    \E c \in 1..NumCallers, arg \in CallPayloads :
        /\ lastCall' = [lastCall EXCEPT ![c] =
               Recorded("validateMorseCode", arg,
                        Return(Bool(validateMorseCode(arg.morse))))]
        /\ morseCodeMap' = TablesAfterCall("validateMorseCode", morseCodeMap, textMap)[1]
        /\ textMap' = TablesAfterCall("validateMorseCode", morseCodeMap, textMap)[2]
        /\ UNCHANGED nonCallerVars

CallGetSupportedCharacters ==
    \E c \in 1..NumCallers :
        /\ lastCall' = [lastCall EXCEPT ![c] =
               Recorded("getSupportedCharacters", NoPayload,
                        Return(getSupportedCharactersOn(morseCodeMap)))]
        /\ morseCodeMap' = TablesAfterCall("getSupportedCharacters", morseCodeMap, textMap)[1]
        /\ textMap' = TablesAfterCall("getSupportedCharacters", morseCodeMap, textMap)[2]
        /\ UNCHANGED nonCallerVars

CallTranslate ==
    \E c \in 1..NumCallers, arg \in CallPayloads :
        /\ lastCall' = [lastCall EXCEPT ![c] =
               Recorded("translate", arg,
                        translateOn(morseCodeMap, textMap, arg))]
        /\ morseCodeMap' = TablesAfterCall("translate", morseCodeMap, textMap)[1]
        /\ textMap' = TablesAfterCall("translate", morseCodeMap, textMap)[2]
        /\ UNCHANGED nonCallerVars

CallersInit ==
    /\ op = "none"
    /\ input = NoPayload
    /\ output = Return(Undefined)
    /\ CallersIdle
    /\ SocketsIdle
    /\ MigrationsIdle
    /\ AuthIdle

CallersNext ==
    \/ CallTextToMorse
    \/ CallMorseToText
    \/ CallValidateText
    \/ CallValidateMorseCode
    \/ CallGetSupportedCharacters
    \/ CallTranslate

SpecCallers == CallersInit /\ [][CallersNext]_vars

---------------------------------------------------------------------------
(* Presence: the connection handler and the disconnect listener it
   registers.  connPc is where a socket's handlers stand:
     "none"           the socket has not connected
     "updateOnline"   the connection handler awaits the is_online update
     "joinUserRooms"  the connection handler awaits joinUserRooms
     "listening"      the connection handler returned: listeners registered
     "updateOffline"  the disconnect listener awaits the is_online update
     "disconnected"   the disconnect listener returned *)

\* no codec call is made by the socket server
CodecIdle ==
    /\ op = "none"
    /\ input = NoPayload
    /\ output = Return(Undefined)
    /\ CallersIdle

ChatIdle ==
    /\ sendMessageCalls = [e \in Events |-> NoCall]
    /\ messages = {}
    /\ emitted = [e \in Events |-> <<>>]

\* no join_room query is pending and nothing was emitted by a room handler
RoomsIdle ==
    /\ joinRoomCalls = {}
    /\ lastEmits = {}

\* no send_direct_message event received yet
DirectIdle ==
    /\ directCall = NoDirectCall
    /\ directMessages = {}
    /\ directEmitted = <<>>

isUserOnline(userId) == Has(userSockets, userId)

getOnlineUsersCount == Cardinality(DOMAIN userSockets)

\* io.on('connection'): the handler up to its first await
Connect(s) ==
    /\ connPc[s] = "none"
    /\ connected' = [connected EXCEPT ![s] = TRUE]
    /\ connectedUsers' = connectedUsers \cup {s}
    /\ userSockets' =
           MapSet(userSockets, owner[s],
                  (IF Has(userSockets, owner[s])
                   THEN userSockets[owner[s]] ELSE {}) \cup {s})
    /\ connPc' = [connPc EXCEPT ![s] = "updateOnline"]
    /\ UNCHANGED <<owner, rooms, isOnline, updateErrors>>
    /\ UNCHANGED nonPresenceVars

\* the update of is_online resolves (or throws and is logged)
UpdateOnline(s) ==
    /\ connPc[s] = "updateOnline"
    /\ \E ok \in BOOLEAN :
           /\ isOnline' = IF ok THEN [isOnline EXCEPT ![owner[s]] = TRUE]
                          ELSE isOnline
           /\ updateErrors' = IF ok THEN updateErrors
                              ELSE updateErrors \cup {s}
    /\ connPc' = [connPc EXCEPT ![s] = "joinUserRooms"]
    /\ UNCHANGED <<owner, connected, connectedUsers, userSockets, rooms>>
    /\ UNCHANGED nonPresenceVars

\* joinUserRooms resolves, then the handler registers its listeners, the
\* 'disconnect' listener among them, and returns
JoinUserRooms(s) ==
    /\ connPc[s] = "joinUserRooms"
    /\ \E ok \in BOOLEAN :
           rooms' = IF ok THEN [rooms EXCEPT ![s] = @ \cup RoomsOf(owner[s])]
                    ELSE rooms
    /\ connPc' = [connPc EXCEPT ![s] = "listening"]
    /\ UNCHANGED <<owner, connected, connectedUsers, userSockets, isOnline,
                   updateErrors>>
    /\ UNCHANGED nonPresenceVars

\* the map after userSocketSet.delete(socket.id) and the delete of its key
\* when the set is left empty
UserSocketsAfterDisconnect(s) ==
    IF ~Has(userSockets, owner[s]) THEN userSockets
    ELSE IF userSockets[owner[s]] \ {s} = {}
         THEN MapDelete(userSockets, owner[s])
         ELSE MapSet(userSockets, owner[s], userSockets[owner[s]] \ {s})

\* the socket closes: it leaves its rooms and 'disconnect' is emitted once,
\* to the listeners registered at that moment
Disconnect(s) ==
    /\ connected[s]
    /\ connected' = [connected EXCEPT ![s] = FALSE]
    /\ rooms' = [rooms EXCEPT ![s] = {}]
    /\ IF connPc[s] = "listening"
       THEN /\ connectedUsers' = connectedUsers \ {s}
            /\ userSockets' = UserSocketsAfterDisconnect(s)
            /\ connPc' = [connPc EXCEPT ![s] =
                   IF Has(userSockets, owner[s])
                      /\ userSockets[owner[s]] \ {s} = {}
                   THEN "updateOffline" ELSE "disconnected"]
       ELSE UNCHANGED <<connectedUsers, userSockets, connPc>>
    /\ UNCHANGED <<owner, isOnline, updateErrors>>
    /\ UNCHANGED nonPresenceVars

\* the disconnect listener's update of is_online resolves (or throws)
UpdateOffline(s) ==
    /\ connPc[s] = "updateOffline"
    /\ \E ok \in BOOLEAN :
           /\ isOnline' = IF ok THEN [isOnline EXCEPT ![owner[s]] = FALSE]
                          ELSE isOnline
           /\ updateErrors' = IF ok THEN updateErrors
                              ELSE updateErrors \cup {s}
    /\ connPc' = [connPc EXCEPT ![s] = "disconnected"]
    /\ UNCHANGED <<owner, connected, connectedUsers, userSockets, rooms>>
    /\ UNCHANGED nonPresenceVars

\* each socket is authenticated as one of the users before it connects
PresenceInit ==
    /\ CodecIdle
    /\ owner \in [Sockets -> Users]
    /\ connected = [s \in Sockets |-> FALSE]
    /\ connPc = [s \in Sockets |-> "none"]
    /\ connectedUsers = {}
    /\ userSockets = EmptyMap
    /\ rooms = [s \in Sockets |-> {}]
    /\ isOnline = [u \in Users |-> FALSE]
    /\ updateErrors = {}
    /\ ChatIdle
    /\ RoomsIdle
    /\ DirectIdle
    /\ MigrationsIdle
    /\ AuthIdle

PresenceNext ==
    \/ \E s \in Sockets : Connect(s)
    \/ \E s \in Sockets : UpdateOnline(s)
    \/ \E s \in Sockets : JoinUserRooms(s)
    \/ \E s \in Sockets : Disconnect(s)
    \/ \E s \in Sockets : UpdateOffline(s)

SpecPresence == PresenceInit /\ [][PresenceNext]_vars

---------------------------------------------------------------------------
(* Room messages: handleSendMessage, one run per send_message event.
   The pc of a run:
     "none"             the event has not been received
     "checkMembership"  the handler awaits the room_members query
     "insertMessage"    the insert into messages is with the database
     "inserted"         the database answered, the handler has not resumed
     "done"             the handler returned *)

\* data of a send_message event: "" stands for an absent or empty roomId,
\* content.text or content.morse; NoData is an event sent without data
RoomIds == Rooms \cup {""}

NoData == [given |-> FALSE, roomId |-> "", text |-> "", morse |-> ""]

SendMessageData ==
    {NoData} \cup [given : {TRUE}, roomId : RoomIds, text : {"", "HI"},
                   morse : {"", ".... .."}]

\* how an awaited query ends: answered from the rows, answered with an
\* error object, or rejected (the handler's catch block runs)
QueryOutcomes == {"answered", "error", "throw"}

InsertOutcomes == {"ok", "error", "throw"}

ToSocket(socket, name, message) ==
    [name |-> name, room |-> "", socket |-> socket, message |-> message]

ToRoom(room, name, message) ==
    [name |-> name, room |-> room, socket |-> 0, message |-> message]

MessageRow(e, call) ==
    [id |-> e, room_id |-> call.roomId, user_id |-> owner[call.socket],
     content_text |-> call.text, content_morse |-> call.morse]

\* the answer of the membership query as the handler reads it
MembershipOf(call, outcome) ==
    IF outcome = "answered"
    THEN IF <<owner[call.socket], call.roomId>> \in RoomMembers
         THEN "ok" ELSE "denied"
    ELSE outcome

\* what the handler emits when it resumes after the insert, broadcasting
\* whatever the insert answered
EmitsAfterInsert_IgnoreError(call) ==
    <<ToRoom(call.roomId, "new_message", call.text)>>

\* what the handler emits when it resumes after the insert
EmitsAfterInsert(call) ==
    IF call.insert = "ok"
    THEN <<ToRoom(call.roomId, "new_message", call.text)>>
    ELSE <<ToSocket(call.socket, "error", "Failed to send message")>>

\* what the handler emits before its first await: nothing when the payload
\* is complete
EmitsOnReceive(s, data) ==
    IF ~data.given
    THEN <<ToSocket(s, "error", "Failed to send message")>>
    ELSE IF data.roomId = "" \/ data.text = "" \/ data.morse = ""
    THEN <<ToSocket(s, "error", "Room ID and content are required")>>
    ELSE <<>>

\* socket.on('send_message'): the handler up to its first await
HandleSendMessage(e) ==
    /\ sendMessageCalls[e].pc = "none"
    /\ \E s \in Sockets, data \in SendMessageData :
         /\ connPc[s] = "listening"
         /\ sendMessageCalls' = [sendMessageCalls EXCEPT ![e] =
                [NoCall EXCEPT !.pc = IF EmitsOnReceive(s, data) = <<>>
                                      THEN "checkMembership" ELSE "done",
                               !.socket = s,
                               !.roomId = data.roomId,
                               !.text = data.text,
                               !.morse = data.morse]]
         /\ emitted' = [emitted EXCEPT ![e] = @ \o EmitsOnReceive(s, data)]
    /\ UNCHANGED messages
    /\ UNCHANGED nonChatVars

\* the membership query resolves and the handler goes on to the insert, or
\* emits an error and returns
MembershipChecked(e) ==
    /\ sendMessageCalls[e].pc = "checkMembership"
    /\ \E outcome \in QueryOutcomes :
         LET call == sendMessageCalls[e]
             member == MembershipOf(call, outcome)
         IN  /\ sendMessageCalls' = [sendMessageCalls EXCEPT ![e] =
                    [call EXCEPT !.member = member,
                                 !.pc = IF member = "ok" THEN "insertMessage"
                                        ELSE "done"]]
             /\ emitted' = [emitted EXCEPT ![e] =
                    IF member = "ok" THEN @
                    ELSE IF member = "throw"
                    THEN Append(@, ToSocket(call.socket, "error",
                                            "Failed to send message"))
                    ELSE Append(@, ToSocket(call.socket, "error",
                                            "Access denied to room"))]
    /\ UNCHANGED messages
    /\ UNCHANGED nonChatVars

\* the database runs the insert: the row is stored, or the insert fails
InsertMessage(e) ==
    /\ sendMessageCalls[e].pc = "insertMessage"
    /\ \E outcome \in InsertOutcomes :
         /\ sendMessageCalls' = [sendMessageCalls EXCEPT ![e] =
                [@ EXCEPT !.insert = outcome, !.pc = "inserted"]]
         /\ messages' = IF outcome = "ok"
                        THEN messages \cup {MessageRow(e, sendMessageCalls[e])}
                        ELSE messages
    /\ UNCHANGED emitted
    /\ UNCHANGED nonChatVars

\* the handler resumes after the insert, emits and returns
MessageInserted(e) ==
    /\ sendMessageCalls[e].pc = "inserted"
    /\ emitted' = [emitted EXCEPT ![e] =
                      @ \o EmitsAfterInsert(sendMessageCalls[e])]
    /\ sendMessageCalls' = [sendMessageCalls EXCEPT ![e] =
                               [@ EXCEPT !.pc = "done"]]
    /\ UNCHANGED messages
    /\ UNCHANGED nonChatVars

\* the first socket is u1's, the others are u2's
ChatOwner == [s \in Sockets |-> IF s = 1 THEN "u1" ELSE "u2"]

\* every socket has connected and its connection handler has returned
ChatInit ==
    /\ CodecIdle
    /\ owner = ChatOwner
    /\ connected = [s \in Sockets |-> TRUE]
    /\ connPc = [s \in Sockets |-> "listening"]
    /\ connectedUsers = Sockets
    /\ userSockets = [u \in {ChatOwner[s] : s \in Sockets} |->
                         {s \in Sockets : ChatOwner[s] = u}]
    /\ rooms = [s \in Sockets |-> RoomsOf(ChatOwner[s])]
    /\ isOnline = [u \in Users |-> \E s \in Sockets : ChatOwner[s] = u]
    /\ updateErrors = {}
    /\ ChatIdle
    /\ RoomsIdle
    /\ DirectIdle
    /\ MigrationsIdle
    /\ AuthIdle

ChatNext ==
    \/ \E e \in Events : HandleSendMessage(e)
    \/ \E e \in Events : MembershipChecked(e)
    \/ \E e \in Events : InsertMessage(e)
    \/ \E e \in Events : MessageInserted(e)

SpecChat == ChatInit /\ [][ChatNext]_vars

---------------------------------------------------------------------------
(* Rooms: join_room, leave_room, the typing indicators and the Morse audio
   events.  lastEmits holds the events the last handler step emitted:
   to a socket (socket.emit) or into a room on behalf of a socket
   (socket.to(room).emit, which reaches the room's other sockets) *)

nonRoomVars == <<owner, connected, connPc, connectedUsers, userSockets,
                 isOnline, updateErrors, chatVars, directVars, nonSocketVars>>

EmitTo(socket, name, message) ==
    [name |-> name, room |-> "", socket |-> socket, from |-> 0,
     message |-> message]

EmitIntoRoom(from, room, name) ==
    [name |-> name, room |-> room, socket |-> 0, from |-> from,
     message |-> ""]

\* receiverSockets.forEach: the receiver's sockets found in connectedUsers
SocketsOfUser(userId) ==
    IF Has(userSockets, userId)
    THEN userSockets[userId] \cap connectedUsers
    ELSE {}

\* a listener of socket s runs only once the connection handler registered it
Listening(s) == connPc[s] = "listening"

\* socket.on('join_room'): handleJoinRoom up to its await
HandleJoinRoom(s) ==
    /\ Listening(s)
    /\ \E roomId \in RoomIds :
         IF roomId = ""
         THEN /\ lastEmits' = {EmitTo(s, "error", "Room ID is required")}
              /\ UNCHANGED joinRoomCalls
         ELSE /\ joinRoomCalls' = joinRoomCalls \cup {<<s, roomId>>}
              /\ lastEmits' = {}
    /\ UNCHANGED rooms
    /\ UNCHANGED nonRoomVars

\* what handleJoinRoom does when its membership query has resolved
JoinRoomChecked(s, roomId) ==
    /\ <<s, roomId>> \in joinRoomCalls
    /\ joinRoomCalls' = joinRoomCalls \ {<<s, roomId>>}
    /\ \E outcome \in QueryOutcomes :
         LET member == MembershipOf([socket |-> s, roomId |-> roomId], outcome)
         IN  IF member = "ok"
             THEN /\ rooms' = [rooms EXCEPT ![s] = @ \cup {roomId}]
                  /\ lastEmits' = {EmitTo(s, "joined_room", roomId),
                                   EmitIntoRoom(s, roomId, "user_joined_room")}
             ELSE /\ UNCHANGED rooms
                  /\ lastEmits' = {EmitTo(s, "error",
                                      IF member = "throw"
                                      THEN "Failed to join room"
                                      ELSE "Access denied to room")}
    /\ UNCHANGED nonRoomVars

\* socket.on('leave_room'): handleLeaveRoom
HandleLeaveRoom(s) ==
    /\ Listening(s)
    /\ \E roomId \in RoomIds :
         IF roomId = ""
         THEN /\ lastEmits' = {EmitTo(s, "error", "Room ID is required")}
              /\ UNCHANGED rooms
         ELSE /\ rooms' = [rooms EXCEPT ![s] = @ \ {roomId}]
              /\ lastEmits' = {EmitTo(s, "left_room", roomId),
                               EmitIntoRoom(s, roomId, "user_left_room")}
    /\ UNCHANGED joinRoomCalls
    /\ UNCHANGED nonRoomVars

\* the events of handleTypingStart / handleTypingStop: into the room when a
\* roomId is given, else to the receiver's sockets, else none
TypingEmits(s, data, roomEvent, directEvent) ==
    IF data.roomId # ""
    THEN {EmitIntoRoom(s, data.roomId, roomEvent)}
    ELSE IF data.receiverId # ""
    THEN {EmitTo(r, directEvent, owner[s]) : r \in SocketsOfUser(data.receiverId)}
    ELSE {}

TypingData == [roomId : RoomIds, receiverId : Users \cup {""}]

\* socket.on('typing_start')
HandleTypingStart(s) ==
    /\ Listening(s)
    /\ \E data \in TypingData :
         lastEmits' = TypingEmits(s, data, "user_typing", "user_typing_direct")
    /\ UNCHANGED <<rooms, joinRoomCalls>>
    /\ UNCHANGED nonRoomVars

\* socket.on('typing_stop')
HandleTypingStop(s) ==
    /\ Listening(s)
    /\ \E data \in TypingData :
         lastEmits' = TypingEmits(s, data, "user_stopped_typing",
                                  "user_stopped_typing_direct")
    /\ UNCHANGED <<rooms, joinRoomCalls>>
    /\ UNCHANGED nonRoomVars

\* socket.on('morse_audio_start')
HandleMorseAudioStart(s) ==
    /\ Listening(s)
    /\ \E roomId \in RoomIds :
         lastEmits' = {EmitIntoRoom(s, roomId, "morse_audio_started")}
    /\ UNCHANGED <<rooms, joinRoomCalls>>
    /\ UNCHANGED nonRoomVars

\* socket.on('morse_audio_stop')
HandleMorseAudioStop(s) ==
    /\ Listening(s)
    /\ \E roomId \in RoomIds :
         lastEmits' = {EmitIntoRoom(s, roomId, "morse_audio_stopped")}
    /\ UNCHANGED <<rooms, joinRoomCalls>>
    /\ UNCHANGED nonRoomVars

\* every socket has connected and joinUserRooms has joined it to the rooms
\* of its user
RoomsInit == ChatInit

RoomsNext ==
    \/ \E s \in Sockets : HandleJoinRoom(s)
    \/ \E s \in Sockets, roomId \in Rooms : JoinRoomChecked(s, roomId)
    \/ \E s \in Sockets : HandleLeaveRoom(s)
    \/ \E s \in Sockets : HandleTypingStart(s)
    \/ \E s \in Sockets : HandleTypingStop(s)
    \/ \E s \in Sockets : HandleMorseAudioStart(s)
    \/ \E s \in Sockets : HandleMorseAudioStop(s)

SpecRooms == RoomsInit /\ [][RoomsNext]_vars

---------------------------------------------------------------------------
(* Direct messages: handleSendDirectMessage, one send_direct_message event
   while sockets disconnect.  The pc of the run:
     "none"      the event has not been received
     "insert"    the insert into direct_messages is with the database
     "inserted"  the database answered, the handler has not resumed
     "done"      the handler returned *)

nonDirectVars == <<presenceVars, chatVars, roomVars, nonSocketVars>>

\* data of a send_direct_message event; NoDirectData is an event sent
\* without data
NoDirectData == [given |-> FALSE, receiverId |-> "", text |-> "", morse |-> ""]

SendDirectMessageData ==
    {NoDirectData} \cup [given : {TRUE}, receiverId : Users \cup {""},
                         text : {"", "HI"}, morse : {"", ".... .."}]

DirectMessageRow(call) ==
    [sender_id |-> owner[call.socket], receiver_id |-> call.receiverId,
     content_text |-> call.text, content_morse |-> call.morse]

\* the elements of a set of socket ids in the order forEach visits them
InOrder(S) ==
    [i \in 1..Cardinality(S) |->
        CHOOSE x \in S : Cardinality({y \in S : y < x}) = i - 1]

\* what the handler emits before its await: nothing when the payload is
\* complete and the receiver is another user
DirectEmitsOnReceive(s, data) ==
    IF ~data.given
    THEN <<EmitTo(s, "error", "Failed to send direct message")>>
    ELSE IF data.receiverId = "" \/ data.text = "" \/ data.morse = ""
    THEN <<EmitTo(s, "error", "Receiver ID and content are required")>>
    ELSE IF data.receiverId = owner[s]
    THEN <<EmitTo(s, "error", "Cannot send message to yourself")>>
    ELSE <<>>

\* what the handler emits when it resumes after the insert, delivering
\* whatever the insert answered
DirectEmitsAfterInsert_IgnoreError(call, receivers) ==
    [i \in 1..Cardinality(receivers) |->
        EmitTo(InOrder(receivers)[i], "new_direct_message", call.text)]
    \o <<EmitTo(call.socket, "direct_message_sent", call.text)>>

\* what the handler emits when it resumes after the insert
DirectEmitsAfterInsert(call, receivers) ==
    IF call.insert = "ok"
    THEN [i \in 1..Cardinality(receivers) |->
             EmitTo(InOrder(receivers)[i], "new_direct_message", call.text)]
         \o <<EmitTo(call.socket, "direct_message_sent", call.text)>>
    ELSE <<EmitTo(call.socket, "error", "Failed to send direct message")>>

\* socket.on('send_direct_message'): the handler up to its await
HandleSendDirectMessage ==
    /\ directCall.pc = "none"
    /\ \E s \in Sockets, data \in SendDirectMessageData :
         /\ Listening(s)
         /\ directCall' =
                [NoDirectCall EXCEPT
                    !.pc = IF DirectEmitsOnReceive(s, data) = <<>>
                           THEN "insert" ELSE "done",
                    !.socket = s,
                    !.receiverId = data.receiverId,
                    !.text = data.text,
                    !.morse = data.morse]
         /\ directEmitted' = directEmitted \o DirectEmitsOnReceive(s, data)
    /\ UNCHANGED directMessages
    /\ UNCHANGED nonDirectVars

\* the database runs the insert: the row is stored, or the insert fails
InsertDirectMessage ==
    /\ directCall.pc = "insert"
    /\ \E outcome \in InsertOutcomes :
         /\ directCall' = [directCall EXCEPT !.insert = outcome,
                                             !.pc = "inserted"]
         /\ directMessages' = IF outcome = "ok"
                              THEN directMessages \cup {DirectMessageRow(directCall)}
                              ELSE directMessages
    /\ UNCHANGED directEmitted
    /\ UNCHANGED nonDirectVars

\* the handler resumes after the insert, emits and returns; receivers is
\* what userSockets and connectedUsers hold for the receiver at that moment
DirectMessageInserted ==
    /\ directCall.pc = "inserted"
    /\ directEmitted' =
           directEmitted \o
               DirectEmitsAfterInsert(directCall,
                                      SocketsOfUser(directCall.receiverId))
    /\ directCall' = [directCall EXCEPT
                         !.pc = "done",
                         !.receivers = SocketsOfUser(directCall.receiverId)]
    /\ UNCHANGED directMessages
    /\ UNCHANGED nonDirectVars

\* every socket has connected and its connection handler has returned
DirectInit == ChatInit

DirectNext ==
    \/ HandleSendDirectMessage
    \/ InsertDirectMessage
    \/ DirectMessageInserted
    \/ \E s \in Sockets : Disconnect(s)
    \/ \E s \in Sockets : UpdateOffline(s)

SpecDirect == DirectInit /\ [][DirectNext]_vars

---------------------------------------------------------------------------
(* MigrationManager: runMigrations and rollbackLastMigration.  runPc is
   where the call of runMigrations stands:
     "idle"      no call was made
     "loop"      in the for loop, at migration runIndex
     "break"     left the loop (a failure, or the outer catch)
     "returned"  the results were returned to the caller *)

\* getAppliedMigrations: the ids of the rows, or [] when the query answers
\* with an error or rejects
getAppliedMigrations(outcome) ==
    IF outcome = "answered" THEN migrationsTable ELSE <<>>

MigrationResultOf(id, status) == [id |-> id, status |-> status]

\* the status of a migration whose up was run: the insert's error object is
\* not read, only a rejection of up or of the insert is caught
StatusAfterUp(up, insert) ==
    IF up = "throw" \/ insert = "throw" THEN "failed" ELSE "success"

\* the rows after insert({ id, ... }): a row whose id is stored already is
\* refused by the table
TableAfterInsert(id, up, insert) ==
    IF up = "ok" /\ insert = "ok" /\ ~Includes(migrationsTable, id)
    THEN Append(migrationsTable, id)
    ELSE migrationsTable

\* the rows after delete().eq('id', id)
TableAfterDelete(id, down, delete) ==
    IF down = "ok" /\ delete = "ok"
    THEN SelectSeq(migrationsTable, LAMBDA x : x # id)
    ELSE migrationsTable

\* runMigrations up to the loop: the table check (and creation), and the
\* read of the applied migrations
RunMigrations ==
    /\ runPc \in {"idle", "returned"}
    /\ runs < NumRuns
    /\ \E tableReady \in BOOLEAN, fetch \in QueryOutcomes :
         /\ runPc' = IF tableReady THEN "loop" ELSE "break"
         /\ appliedMigrations' = IF tableReady THEN getAppliedMigrations(fetch)
                                 ELSE <<>>
    /\ runIndex' = 1
    /\ results' = <<>>
    /\ upInvoked' = {}
    /\ tableAtStart' = migrationsTable
    /\ lastRollback' = NoResult
    /\ UNCHANGED <<migrations, migrationsTable, runs, reported>>
    /\ UNCHANGED nonMigrationVars

\* one iteration of the loop with a migration found in appliedMigrations
SkipMigration ==
    /\ runPc = "loop"
    /\ runIndex <= Len(migrations)
    /\ Includes(appliedMigrations, migrations[runIndex])
    /\ results' = Append(results,
                         MigrationResultOf(migrations[runIndex], "skipped"))
    /\ runIndex' = runIndex + 1
    /\ UNCHANGED <<migrations, migrationsTable, runPc, runs, appliedMigrations,
                   upInvoked, tableAtStart, reported, lastRollback>>
    /\ UNCHANGED nonMigrationVars

\* one iteration of the loop with a pending migration: up, the insert of
\* its record, the result, and the break on a failure
ApplyMigration ==
    /\ runPc = "loop"
    /\ runIndex <= Len(migrations)
    /\ ~Includes(appliedMigrations, migrations[runIndex])
    /\ \E up \in {"ok", "throw"}, insert \in InsertOutcomes :
         LET id == migrations[runIndex]
         IN  /\ upInvoked' = upInvoked \cup {id}
             /\ migrationsTable' = TableAfterInsert(id, up, insert)
             /\ results' = Append(results,
                    MigrationResultOf(id, StatusAfterUp(up, insert)))
             /\ runPc' = IF StatusAfterUp(up, insert) = "failed"
                         THEN "break" ELSE "loop"
    /\ runIndex' = runIndex + 1
    /\ UNCHANGED <<migrations, runs, appliedMigrations, tableAtStart,
                   reported, lastRollback>>
    /\ UNCHANGED nonMigrationVars

\* return results
ReturnResults ==
    /\ \/ runPc = "break"
       \/ runPc = "loop" /\ runIndex > Len(migrations)
    /\ runPc' = "returned"
    /\ runs' = runs + 1
    /\ reported' = [id \in MigrationIds |->
           IF \E k \in DOMAIN results : results[k].id = id
           THEN (CHOOSE r \in {results[k] : k \in DOMAIN results} :
                    r.id = id).status
           ELSE reported[id]]
    /\ UNCHANGED <<migrations, migrationsTable, runIndex, appliedMigrations,
                   results, upInvoked, tableAtStart, lastRollback>>
    /\ UNCHANGED nonMigrationVars

\* rollbackLastMigration, called between two runs
RollbackLastMigration ==
    /\ runPc \in {"idle", "returned"}
    /\ \E fetch \in QueryOutcomes, down \in {"ok", "throw"},
          delete \in InsertOutcomes :
         LET applied == getAppliedMigrations(fetch)
             id == applied[Len(applied)]
         IN  IF applied = <<>> \/ ~Includes(migrations, id)
             THEN /\ lastRollback' = NoResult
                  /\ UNCHANGED <<migrationsTable, reported>>
             ELSE /\ migrationsTable' = TableAfterDelete(id, down, delete)
                  /\ lastRollback' =
                         MigrationResultOf(id, StatusAfterUp(down, delete))
                  /\ reported' =
                         IF StatusAfterUp(down, delete) = "success"
                         THEN [reported EXCEPT ![id] = "rolled back"]
                         ELSE reported
    /\ UNCHANGED <<migrations, runPc, runIndex, runs, appliedMigrations,
                   results, upInvoked, tableAtStart>>
    /\ UNCHANGED nonMigrationVars

\* every migration registered in some order, some of them applied before
MigrationsInit ==
    /\ CodecIdle
    /\ SocketsIdle
    /\ migrations \in DistinctIds(NumMigrations)
    /\ migrationsTable \in UNION {DistinctIds(n) : n \in 0..NumMigrations}
    /\ ManagerIdle
    /\ AuthIdle

MigrationsNext ==
    \/ RunMigrations
    \/ SkipMigration
    \/ ApplyMigration
    \/ ReturnResults
    \/ RollbackLastMigration

SpecMigrations == MigrationsInit /\ [][MigrationsNext]_vars

---------------------------------------------------------------------------
(* The auth service: generateTokenPair, the authenticateToken middleware
   and POST /auth/refresh *)

\* jwt.sign with the service's secret, issuer and audience
SignedToken(type, userId, serial) ==
    [type |-> type, sub |-> userId, serial |-> serial, signed |-> TRUE]

\* a token made without the secret
ForgedTokens ==
    [type : {"access", "refresh"}, sub : Users, serial : {0}, signed : {FALSE}]

\* what a client can present: a token it was issued, or one it made up
PresentedTokens == issuedTokens \cup ForgedTokens

\* jwt.verify returns the decoded payload of a token that carries the
\* signature and has not expired, and throws otherwise
jwtVerifies(token, expired) == token.signed /\ ~expired

NullPayload == [userId |-> ""]

\* a slip: the type of the decoded token not looked at
verifyAccessToken_NoTypeCheck(token, expired) ==
    IF ~jwtVerifies(token, expired) THEN NullPayload
    ELSE [userId |-> token.sub]

verifyAccessToken(token, expired) ==
    IF ~jwtVerifies(token, expired) THEN NullPayload
    ELSE IF token.type # "access" THEN NullPayload
    ELSE [userId |-> token.sub]

verifyRefreshToken(token, expired) ==
    IF ~jwtVerifies(token, expired) THEN NullPayload
    ELSE IF token.type # "refresh" THEN NullPayload
    ELSE [userId |-> token.sub]

generateTokenPair(userId, serial) ==
    {SignedToken("access", userId, serial),
     SignedToken("refresh", userId, serial)}

\* a login or registration that succeeds: a token pair is issued
Login ==
    /\ pairsIssued < MaxPairs
    /\ \E u \in Users :
         issuedTokens' = issuedTokens \cup generateTokenPair(u, pairsIssued + 1)
    /\ pairsIssued' = pairsIssued + 1
    /\ UNCHANGED <<authResult, refreshResult>>
    /\ UNCHANGED nonAuthVars

\* authenticateToken on a request with or without a bearer token
AuthenticateToken ==
    /\ \E token \in PresentedTokens \cup {NoToken}, expired \in BOOLEAN :
         LET payload == verifyAccessToken(token, expired)
         IN  authResult' =
                 IF token = NoToken \/ payload = NullPayload
                 THEN [token |-> token, status |-> "401", user |-> ""]
                 ELSE [token |-> token, status |-> "next",
                       user |-> payload.userId]
    /\ UNCHANGED <<issuedTokens, pairsIssued, refreshResult>>
    /\ UNCHANGED nonAuthVars

\* POST /auth/refresh with a refreshToken in the body
PostRefresh ==
    /\ \E token \in PresentedTokens, expired \in BOOLEAN, found \in BOOLEAN :
         LET payload == verifyRefreshToken(token, expired)
         IN  IF payload = NullPayload
             THEN /\ refreshResult' =
                         [token |-> token, status |-> "401", user |-> ""]
                  /\ UNCHANGED <<issuedTokens, pairsIssued>>
             ELSE IF ~found
             THEN /\ refreshResult' =
                         [token |-> token, status |-> "404", user |-> ""]
                  /\ UNCHANGED <<issuedTokens, pairsIssued>>
             ELSE /\ pairsIssued < MaxPairs
                  /\ refreshResult' =
                         [token |-> token, status |-> "200",
                          user |-> payload.userId]
                  /\ issuedTokens' =
                         issuedTokens
                             \cup generateTokenPair(payload.userId, pairsIssued + 1)
                  /\ pairsIssued' = pairsIssued + 1
    /\ UNCHANGED authResult
    /\ UNCHANGED nonAuthVars

AuthInit ==
    /\ CodecIdle
    /\ SocketsIdle
    /\ MigrationsIdle
    /\ AuthIdle

AuthNext ==
    \/ Login
    \/ AuthenticateToken
    \/ PostRefresh

SpecAuth == AuthInit /\ [][AuthNext]_vars

---------------------------------------------------------------------------
(* Properties of the codec *)

\* every character of s is a key of the symbol table (the space included)
AllTableKeys(s) == \A i \in 1..Len(s) : s[i] \in TableKeys

\* C1: round trip. For every non-empty string s whose characters are all
\* keys of the symbol table, textToMorse(s) returns and morseToText of the
\* returned Morse returns s.
C1_RoundTrip ==
    (/\ op = "textToMorse"
     /\ IsString(input.text)
     /\ input.text.s # <<>>
     /\ AllTableKeys(input.text.s))
        => /\ output.kind = "return"
           /\ morseToText(output.value) = Return(Str(input.text.s))

C1_Witness ==
    /\ op = "textToMorse"
    /\ input.text = Str(STR_HI_THERE)
    /\ output.kind = "return"
    /\ morseToText(output.value) = Return(Str(STR_HI_THERE))

\* C2: the symbol table is a bijection. The patterns of distinct table
\* characters are pairwise distinct, the reverse table has exactly one
\* entry per forward entry (the pattern mapped back to its character), and
\* decoding the pattern of every listed character returns that character.
C2_Bijection ==
    op = "getSupportedCharacters"
        => /\ \A i, j \in 1..Len(MORSE_CODE_MAP) :
                  i # j => MORSE_CODE_MAP[i][2] # MORSE_CODE_MAP[j][2]
           /\ Len(TEXT_MAP) = Len(MORSE_CODE_MAP)
           /\ \A i \in 1..Len(MORSE_CODE_MAP) :
                  \E j \in 1..Len(TEXT_MAP) :
                      TEXT_MAP[j] = <<MORSE_CODE_MAP[i][2], MORSE_CODE_MAP[i][1]>>
           /\ \A i \in 1..Len(output.value) :
                  LET c == output.value[i]
                  IN  morseToText(Str(OwnValue(MORSE_CODE_MAP, c)))
                          = Return(Str(<<c>>))

C2_Witness ==
    /\ op = "getSupportedCharacters"
    /\ output.kind = "return"
    /\ Len(output.value) = 54
    /\ \E i \in 1..Len(output.value) : output.value[i] = ")"
    /\ morseToText(Str(<<"-", ".", "-", "-", ".", "-">>)) = Return(Str(<<")">>))

\* the punctuation marks in the order they are declared, without the space
PunctuationMarks ==
    <<".", ",", "?", "'", "!", "/", "(", ")", "&", ":", ";", "=", "+", "-",
      "_", "\"", "$", "@">>

\* C3 as stated: getSupportedCharacters returns the keys other than the
\* space in the order the table declares them: letters, digits, punctuation.
C3_DeclarationOrder ==
    op = "getSupportedCharacters"
        => output = Return(UpperCase \o Digits \o PunctuationMarks)

\* C3 as amended: getSupportedCharacters returns every key other than the
\* space, the digits 0-9 first in ascending order, then the letters A-Z,
\* then the punctuation marks in their declared order.
C3_DigitsFirst ==
    op = "getSupportedCharacters"
        => output = Return(Digits \o UpperCase \o PunctuationMarks)

C3_Witness ==
    /\ op = "getSupportedCharacters"
    /\ output.kind = "return"
    /\ output.value[1] = "0"
    /\ output.value[11] = "A"
    /\ output.value[37] = "."
    /\ \A i \in 1..Len(output.value) : output.value[i] # " "

\* the validation step of translate has passed for the request
ValidationPassed(request) ==
    IF request.direction = "text-to-morse"
    THEN Truthy(request.text) /\ validateText(request.text)
    ELSE Truthy(request.morse) /\ validateMorseCode(request.morse)

\* C4 as stated: whenever the validation step of translate has passed, the
\* delegated textToMorse / morseToText call returns a result.
C4_TotalOnValidated ==
    (op = "translate" /\ ValidationPassed(input)) => output.kind = "return"

\* C5: the syntax versus semantics gap. For the input "...... ......"
\* validateMorseCode returns true and morseToText fails with
\* InvalidMorseCode.
C5_SyntaxSemanticsGap ==
    input.morse = Str(STR_six_six)
        => /\ op = "validateMorseCode" => output = Return(Bool(TRUE))
           /\ op = "morseToText"
                  => output.kind = "throw" /\ output.error = "InvalidMorseCode"
           /\ validateMorseCode(input.morse)
           /\ morseToText(input.morse).error = "InvalidMorseCode"

C5_Witness ==
    /\ op = "morseToText"
    /\ input.morse = Str(STR_six_six)
    /\ output = Throw("InvalidMorseCode", <<".", ".", ".", ".", ".", ".">>)
    /\ validateMorseCode(input.morse)

\* the Morse patterns of the symbol table
TablePatterns == {MORSE_CODE_MAP[i][2] : i \in 1..Len(MORSE_CODE_MAP)}

\* the tokens of the normalised input that are neither '/' nor a pattern
UnassignedTokens(s) ==
    LET toks == Split(cleanMorseOf(s), " ")
    IN  {i \in 1..Len(toks) : toks[i] # <<"/">> /\ toks[i] \notin TablePatterns}

\* C6 as stated: morseToText fails with InvalidMorseCode naming the
\* offending token, and returns no text, whenever a token of the normalised
\* input is neither '/' nor a Morse pattern of the symbol table, whatever
\* characters the token is made of.
C6_UnassignedTokenFails ==
    (/\ op = "morseToText"
     /\ IsString(input.morse)
     /\ input.morse.s # <<>>
     /\ UnassignedTokens(input.morse.s) # {})
        => /\ output.kind = "throw"
           /\ output.error = "InvalidMorseCode"
           /\ \E i \in UnassignedTokens(input.morse.s) :
                  output.detail = Split(cleanMorseOf(input.morse.s), " ")[i]

\* the characters of the uppercased text that are neither the space nor a
\* key of the symbol table
UnsupportedAt(s) ==
    LET u == ToUpperCase(s)
    IN  {i \in 1..Len(u) : u[i] # " " /\ u[i] \notin TableKeys}

\* C7: textToMorse fails with UnsupportedCharacter naming the offending
\* character (the first one) whenever the uppercased input holds a
\* character that is neither the space nor a key of the symbol table,
\* wherever it occurs; nothing is returned.
C7_UnsupportedCharacterFails ==
    (/\ op = "textToMorse"
     /\ IsString(input.text)
     /\ UnsupportedAt(input.text.s) # {})
        => /\ output.kind = "throw"
           /\ output.error = "UnsupportedCharacter"
           /\ output.value = Undefined
           /\ output.detail =
                  <<ToUpperCase(input.text.s)[FirstOf(UnsupportedAt(input.text.s))]>>

C7_Witness ==
    /\ op = "textToMorse"
    /\ input.text = Str(STR_HELLO_EURO)
    /\ output = Throw("UnsupportedCharacter", <<"€">>)

\* an empty string or a value that is no string
EmptyOrNonString(v) == ~IsString(v) \/ v.s = <<>>

\* C8: for the empty string, null and values that are no strings,
\* textToMorse and morseToText fail with InvalidInput, and validateText and
\* validateMorseCode return false.
C8_EmptyOrNonStringRejected ==
    /\ (op = "textToMorse" /\ EmptyOrNonString(input.text))
           => output = Throw("InvalidInput", <<>>)
    /\ (op = "morseToText" /\ EmptyOrNonString(input.morse))
           => output = Throw("InvalidInput", <<>>)
    /\ (op = "validateText" /\ EmptyOrNonString(input.text))
           => output = Return(Bool(FALSE))
    /\ (op = "validateMorseCode" /\ EmptyOrNonString(input.morse))
           => output = Return(Bool(FALSE))

C8_Witness ==
    /\ op = "textToMorse"
    /\ input.text = Str(<<>>)
    /\ output = Throw("InvalidInput", <<>>)

\* C9: validateMorseCode returns true exactly when its input is a
\* non-empty string made only of '.', '-', '/' and whitespace, whether or
\* not its tokens are assigned patterns.
C9_ValidateMorseCodeSyntactic ==
    op = "validateMorseCode"
        => /\ output.kind = "return"
           /\ (output.value = Bool(TRUE)
                  <=> /\ IsString(input.morse)
                      /\ input.morse.s # <<>>
                      /\ \A i \in 1..Len(input.morse.s) :
                             input.morse.s[i] \in {".", "-", "/", " ", "\t", "\n"})
           /\ output.value \in {Bool(TRUE), Bool(FALSE)}

C9_Witness ==
    /\ op = "validateMorseCode"
    /\ input.morse = Str(<<".", "/", "\t", "-">>)
    /\ output = Return(Bool(TRUE))
    /\ morseToText(input.morse).kind = "throw"

\* C10: validateText returns true exactly when its input is a non-empty
\* string in which, after uppercasing, every character is the space or a
\* key of the symbol table.
C10_ValidateTextSupported ==
    op = "validateText"
        => /\ output.kind = "return"
           /\ (output.value = Bool(TRUE)
                  <=> /\ IsString(input.text)
                      /\ input.text.s # <<>>
                      /\ UnsupportedAt(input.text.s) = {})
           /\ output.value \in {Bool(TRUE), Bool(FALSE)}

C10_Witness ==
    /\ op = "validateText"
    /\ input.text = Str(<<"s", " ", "1">>)
    /\ output = Return(Bool(TRUE))

\* the positions of the space characters of a string
SpacesOf(s) == {i \in 1..Len(s) : s[i] = " "}

\* C11 as stated: each word break is encoded as the token '/', and decoding
\* the encoding gives the text back with one space in place of every run of
\* consecutive spaces.
C11_SpaceRunsCollapsed ==
    (/\ op = "textToMorse"
     /\ IsString(input.text)
     /\ output.kind = "return")
        => morseToText(output.value)
               = Return(Str(CollapseSpaceRuns(ToUpperCase(input.text.s))))

\* C11 as amended: every space of the text is encoded as its own token '/',
\* separated from its neighbours by single spaces, and decoding the encoding
\* gives the uppercased text back with every space of the original, runs of
\* several spaces included.
C11_SpacesPreserved ==
    (/\ op = "textToMorse"
     /\ IsString(input.text)
     /\ output.kind = "return")
        => LET u == ToUpperCase(input.text.s)
               toks == Split(output.value.s, " ")
           IN  /\ Len(toks) = Len(u)
               /\ \A i \in 1..Len(u) : (toks[i] = <<"/">>) <=> (u[i] = " ")
               /\ morseToText(output.value) = Return(Str(u))
               /\ SpacesOf(morseToText(output.value).value.s) = SpacesOf(u)

C11_Witness ==
    /\ op = "textToMorse"
    /\ input.text = Str(STR_HI__THERE)
    /\ output.kind = "return"
    /\ morseToText(output.value) = Return(Str(STR_HI__THERE))
    /\ Cardinality(SpacesOf(morseToText(output.value).value.s)) = 2

\* C12: textToMorse is case-insensitive. For every string s the outcome of
\* textToMorse(s), a result or a failure, is the outcome of textToMorse of
\* s uppercased; "sos" and "SOS" both give "... --- ...".
C12_CaseInsensitive ==
    (op = "textToMorse" /\ IsString(input.text))
        => /\ output = textToMorse(Str(ToUpperCase(input.text.s)))
           /\ input.text.s \in {STR_sos, STR_SOS}
                  => output = Return(Str(STR_sos_morse))

C12_Witness ==
    /\ op = "textToMorse"
    /\ input.text = Str(STR_sos)
    /\ output = Return(Str(STR_sos_morse))
    /\ textToMorse(Str(STR_SOS)) = output

\* a Morse string with its leading and trailing whitespace removed and
\* every run of whitespace replaced by one space
NormalisedSpacing(s) == CollapseWhiteSpace(Trim(s))

\* the string holds a character that is no whitespace
HasToken(s) == \E i \in 1..Len(s) : s[i] \notin WhiteSpace

\* C13 as stated: for every Morse string m the outcome of morseToText(m) is
\* the outcome of morseToText of m with its spacing normalised.
C13_SpacingTolerated ==
    (op = "morseToText" /\ IsString(input.morse))
        => output = morseToText(Str(NormalisedSpacing(input.morse.s)))

\* C13 as amended: for every Morse string m that holds a character other
\* than whitespace the outcome of morseToText(m) is the outcome of
\* morseToText of m with its spacing normalised; a non-empty m of whitespace
\* alone fails with InvalidMorseCode naming the empty token, whereas its
\* normalised form, the empty string, fails with InvalidInput.
C13_SpacingToleratedWithToken ==
    (op = "morseToText" /\ IsString(input.morse))
        => /\ HasToken(input.morse.s)
                  => output = morseToText(Str(NormalisedSpacing(input.morse.s)))
           /\ (input.morse.s # <<>> /\ ~HasToken(input.morse.s))
                  => /\ output = Throw("InvalidMorseCode", <<>>)
                     /\ morseToText(Str(NormalisedSpacing(input.morse.s)))
                            = Throw("InvalidInput", <<>>)

C13_Witness ==
    /\ op = "morseToText"
    /\ input.morse = Str(<<".", "\t", " ", "-">>)
    /\ output = Return(Str(<<"E", "T">>))
    /\ NormalisedSpacing(input.morse.s) = <<".", " ", "-">>

\* C14: translate with direction 'text-to-morse' fails with MissingInput
\* when the text payload is absent or empty (falsy), otherwise with
\* UnsupportedCharacters when validateText(text) is false, both before
\* textToMorse is called; otherwise it returns original = text, translated
\* = textToMorse(text) and the direction of the request, whatever the morse
\* payload is.
C14_TranslateTextToMorse ==
    (op = "translate" /\ input.direction = "text-to-morse")
        => /\ ~Truthy(input.text) => output = Throw("MissingInput", <<>>)
           /\ (Truthy(input.text) /\ ~validateText(input.text))
                  => output = Throw("UnsupportedCharacters", <<>>)
           /\ (Truthy(input.text) /\ validateText(input.text))
                  => /\ textToMorse(input.text).kind = "return"
                     /\ output = Return([original |-> input.text,
                                         translated |-> textToMorse(input.text).value,
                                         direction |-> "text-to-morse"])
           /\ output = translate([input EXCEPT !.morse = Undefined])

C14_Witness ==
    /\ op = "translate"
    /\ input.direction = "text-to-morse"
    /\ input.text = Str(STR_sos)
    /\ input.morse = Str(STR_unassigned)
    /\ output = Return([original |-> Str(STR_sos),
                        translated |-> Str(STR_sos_morse),
                        direction |-> "text-to-morse"])

\* C15 as stated: translate with direction 'morse-to-text' fails with
\* MissingInput when the morse payload is absent or empty (falsy), otherwise
\* with InvalidFormat when validateMorseCode(morse) is false; otherwise it
\* returns original = morse, translated = morseToText(morse) and the
\* direction of the request, whatever the text payload is.
C15_TranslateMorseToText ==
    (op = "translate" /\ input.direction = "morse-to-text")
        => /\ ~Truthy(input.morse) => output = Throw("MissingInput", <<>>)
           /\ (Truthy(input.morse) /\ ~validateMorseCode(input.morse))
                  => output = Throw("InvalidFormat", <<>>)
           /\ (Truthy(input.morse) /\ validateMorseCode(input.morse))
                  => output = Return([original |-> input.morse,
                                      translated |-> morseToText(input.morse).value,
                                      direction |-> "morse-to-text"])
           /\ output = translate([input EXCEPT !.text = Undefined])

\* the output has no leading, trailing or doubled space
SingleSpaced(s) ==
    /\ s # <<>> => s[1] # " " /\ s[Len(s)] # " "
    /\ \A i \in 1..(Len(s) - 1) : ~(s[i] = " " /\ s[i + 1] = " ")

\* C16 as stated: when textToMorse succeeds its output is the tokens joined
\* by exactly one space, with exactly one token per input character, no
\* leading or trailing space and no two adjacent spaces.
C16_OneTokenPerInputCharacter ==
    (op = "textToMorse" /\ output.kind = "return")
        => /\ Len(Split(output.value.s, " ")) = Len(input.text.s)
           /\ SingleSpaced(output.value.s)

\* C16 as amended: when textToMorse succeeds its output is the tokens
\* joined by exactly one space, with exactly one token per character of
\* the uppercased input (one per input character unless uppercasing
\* lengthens the text, as it does for the sharp s), each token '/' or the
\* pattern of its character, no leading or trailing space and no two
\* adjacent spaces.
C16_OneTokenPerUppercasedCharacter ==
    (op = "textToMorse" /\ output.kind = "return")
        => LET u == ToUpperCase(input.text.s)
               toks == Split(output.value.s, " ")
           IN  /\ Len(toks) = Len(u)
               /\ Len(u) = Len(input.text.s) => Len(toks) = Len(input.text.s)
               /\ \A i \in 1..Len(u) :
                      toks[i] = IF u[i] = " " THEN <<"/">>
                                ELSE OwnValue(MORSE_CODE_MAP, u[i])
               /\ SingleSpaced(output.value.s)

C16_Witness ==
    /\ op = "textToMorse"
    /\ input.text = Str(<<"s", "ß", " ">>)
    /\ output = Return(Str(<<".", ".", ".", " ", ".", ".", ".", " ",
                              ".", ".", ".", " ", "/">>))

\* the outcome of the named operation called alone with the payload, on
\* the tables as they are loaded
CalledAlone(name, arg) ==
    CASE name = "textToMorse" -> textToMorse(arg.text)
      [] name = "morseToText" -> morseToText(arg.morse)
      [] name = "validateText" -> Return(Bool(validateText(arg.text)))
      [] name = "validateMorseCode" -> Return(Bool(validateMorseCode(arg.morse)))
      [] name = "getSupportedCharacters" -> Return(getSupportedCharacters)
      [] name = "translate" -> translate(arg)
      [] OTHER -> Return(Undefined)

\* C17: no codec operation modifies the symbol table or the reverse table,
\* and under any interleaving of calls by the callers every call returns
\* what it returns when made alone; two calls of the same operation with
\* the same argument, validation calls included, give the same answer.
C17_TablesReadOnly ==
    /\ morseCodeMap = MORSE_CODE_MAP
    /\ textMap = TEXT_MAP
    /\ \A c \in 1..NumCallers :
           lastCall[c].result = CalledAlone(lastCall[c].op, lastCall[c].arg)
    /\ \A c, d \in 1..NumCallers :
           (lastCall[c].op = lastCall[d].op /\ lastCall[c].arg = lastCall[d].arg)
               => lastCall[c].result = lastCall[d].result

C17_Witness ==
    /\ lastCall[1].op = "getSupportedCharacters"
    /\ lastCall[2].op = "translate"
    /\ lastCall[2].arg.text = Str(STR_sos)
    /\ lastCall[2].result.kind = "return"
    /\ lastCall[2].result.value.translated = Str(STR_sos_morse)
    /\ morseCodeMap = MORSE_CODE_MAP

\* C18: the listing of getSupportedCharacters never holds the space, is
\* not empty, is the same on every call, and holds exactly the letters A-Z,
\* the digits 0-9 and the 18 punctuation marks, each exactly once.
C18_ListingStable ==
    \A c \in 1..NumCallers :
        lastCall[c].op = "getSupportedCharacters"
            => LET list == lastCall[c].result.value
               IN  /\ lastCall[c].result.kind = "return"
                   /\ Len(list) >= 1
                   /\ \A i \in 1..Len(list) : list[i] # " "
                   /\ {list[i] : i \in 1..Len(list)}
                          = {UpperCase[i] : i \in 1..Len(UpperCase)}
                              \cup {Digits[i] : i \in 1..Len(Digits)}
                              \cup {PunctuationMarks[i] : i \in 1..Len(PunctuationMarks)}
                   /\ Len(PunctuationMarks) = 18
                   /\ \A i, j \in 1..Len(list) : i # j => list[i] # list[j]
                   /\ \A d \in 1..NumCallers :
                          lastCall[d].op = "getSupportedCharacters"
                              => lastCall[d].result = lastCall[c].result

C18_Witness ==
    /\ \A c \in 1..NumCallers : lastCall[c].op = "getSupportedCharacters"
    /\ Len(lastCall[1].result.value) = 54
    /\ lastCall[1].result = lastCall[NumCallers].result

\* C25: for every string t, validateText(t) is true exactly when
\* textToMorse(t) returns without failing; hence translate with direction
\* 'text-to-morse' never fails with UnsupportedCharacter.
C25_ValidateTextIffEncodes ==
    /\ (op = "validateText" /\ IsString(input.text))
           => (output = Return(Bool(TRUE))
                  <=> textToMorse(input.text).kind = "return")
    /\ (op = "translate" /\ input.direction = "text-to-morse")
           => output.error # "UnsupportedCharacter"

C25_Witness ==
    /\ op = "validateText"
    /\ input.text = Str(<<"ß">>)
    /\ output = Return(Bool(TRUE))
    /\ textToMorse(input.text) = Return(Str(<<".", ".", ".", " ", ".", ".", ".">>))

\* C26: for every Morse string m that morseToText decodes successfully,
\* textToMorse(morseToText(m)) succeeds and equals m with leading and
\* trailing whitespace removed and every whitespace run replaced by a
\* single space.
C26_ReverseRoundTrip ==
    (op = "morseToText" /\ IsString(input.morse) /\ output.kind = "return")
        => textToMorse(output.value)
               = Return(Str(NormalisedSpacing(input.morse.s)))

\* C26 for the strings whose tokens are all entries of the reverse table
C26_ReverseRoundTripOfTableTokens ==
    (/\ op = "morseToText" /\ IsString(input.morse) /\ output.kind = "return"
     /\ \A tok \in {Split(NormalisedSpacing(input.morse.s), " ")[i] :
                        i \in 1..Len(Split(NormalisedSpacing(input.morse.s), " "))} :
            HasOwnProperty(TEXT_MAP, tok))
        => textToMorse(output.value)
               = Return(Str(NormalisedSpacing(input.morse.s)))

\* a non-empty string of whitespace alone
WhiteSpaceOnly(v) ==
    IsString(v) /\ v.s # <<>> /\ \A i \in 1..Len(v.s) : v.s[i] \in WhiteSpace

\* C27: Morse input that is non-empty but consists only of whitespace is
\* accepted by validateMorseCode and then fails in morseToText with
\* InvalidMorseCode naming an empty token (not with InvalidInput);
\* translate with such a payload passes its validation step and fails in
\* decoding.
C27_WhiteSpaceOnlyMorse ==
    WhiteSpaceOnly(input.morse) =>
        /\ op = "validateMorseCode" => output = Return(Bool(TRUE))
        /\ op = "morseToText" => output = Throw("InvalidMorseCode", <<>>)
        /\ (op = "translate" /\ input.direction = "morse-to-text")
               => /\ validateMorseCode(input.morse)
                  /\ output = Throw("InvalidMorseCode", <<>>)

C27_Witness ==
    /\ op = "translate"
    /\ input.direction = "morse-to-text"
    /\ input.morse = Str(<<" ", " ">>)
    /\ output = Throw("InvalidMorseCode", <<>>)

\* the two directions of a translation
TranslationDirections == {"text-to-morse", "morse-to-text"}

---------------------------------------------------------------------------
(* Properties of the socket server *)

\* the positions of the new_message emissions of event e
NewMessages(e) ==
    {i \in DOMAIN emitted[e] : emitted[e][i].name = "new_message"}

\* the payload is incomplete, the membership check failed or the insert failed
SendFailed(call) ==
    /\ call.pc # "none"
    /\ \/ call.roomId = "" \/ call.text = "" \/ call.morse = ""
       \/ call.member \in {"denied", "error", "throw"}
       \/ call.insert \in {"error", "throw"}

\* C19: for each send_message event a new_message is emitted to room:R at
\* most once and only after the insert for R has succeeded; if the payload
\* is incomplete, the membership check fails or the insert fails, no
\* new_message is emitted and the sending socket receives an error event.
C19_FanOutAfterPersistence ==
    \A e \in Events :
        LET call == sendMessageCalls[e]
        IN  /\ Cardinality(NewMessages(e)) <= 1
            /\ \A i \in NewMessages(e) :
                   /\ emitted[e][i].room = call.roomId
                   /\ call.insert = "ok"
                   /\ \E row \in messages :
                          row.id = e /\ row.room_id = emitted[e][i].room
            /\ SendFailed(call) =>
                   /\ NewMessages(e) = {}
                   /\ call.pc = "done" =>
                          \E i \in DOMAIN emitted[e] :
                              /\ emitted[e][i].name = "error"
                              /\ emitted[e][i].socket = call.socket

\* one event was fanned out after its insert, another failed at the insert
\* and was answered with an error
C19_Witness ==
    \E e1, e2 \in Events :
        /\ sendMessageCalls[e1].pc = "done"
        /\ sendMessageCalls[e1].insert = "ok"
        /\ NewMessages(e1) # {}
        /\ sendMessageCalls[e2].pc = "done"
        /\ sendMessageCalls[e2].insert = "error"
        /\ emitted[e2] = <<ToSocket(sendMessageCalls[e2].socket, "error",
                                    "Failed to send message")>>

\* no connection handler and no disconnect listener is in the middle of its run
HandlersFinished ==
    \A s \in Sockets : connPc[s] \in {"none", "listening", "disconnected"}

\* a socket whose disconnect arrived while its connection handler awaited
LostDisconnect(s) == ~connected[s] /\ connPc[s] = "listening"

\* C20: once all handlers have finished, isUserOnline(u) is true exactly
\* when u has a socket still connected, no disconnected socket id remains
\* in connectedUsers or userSockets, and no user maps to an empty set.
C20_PresenceMatchesConnectivity ==
    HandlersFinished =>
        /\ \A u \in Users :
               isUserOnline(u) <=> \E s \in Sockets : owner[s] = u /\ connected[s]
        /\ \A s \in Sockets :
               ~connected[s] =>
                   /\ s \notin connectedUsers
                   /\ \A u \in DOMAIN userSockets : s \notin userSockets[u]
        /\ \A u \in DOMAIN userSockets : userSockets[u] # {}

\* without a disconnect that arrives during the awaits, the maps do match
C20_MatchesWithoutEarlyDisconnect ==
    (HandlersFinished /\ \A s \in Sockets : ~LostDisconnect(s)) =>
        /\ \A u \in Users :
               isUserOnline(u) <=> \E s \in Sockets : owner[s] = u /\ connected[s]
        /\ \A s \in Sockets :
               ~connected[s] =>
                   /\ s \notin connectedUsers
                   /\ \A u \in DOMAIN userSockets : s \notin userSockets[u]
        /\ \A u \in DOMAIN userSockets : userSockets[u] # {}

\* C21: once every pending status update has completed (none having
\* thrown), the stored is_online of a user is true exactly when the user
\* has at least one connected socket.
C21_OnlineFlagFollowsConnections ==
    (HandlersFinished /\ updateErrors = {}) =>
        \A u \in Users :
            isOnline[u] <=> \E s \in Sockets : owner[s] = u /\ connected[s]

\* C21 with the disconnects that arrive during the awaits left out: the
\* flag can still end up false while a socket of the user is connected
C21_FollowsWithoutEarlyDisconnect ==
    (HandlersFinished /\ updateErrors = {}
       /\ \A s \in Sockets : ~LostDisconnect(s)) =>
        \A u \in Users :
            isOnline[u] <=> \E s \in Sockets : owner[s] = u /\ connected[s]

\* persistence confirms that the user of socket s is a member of room R
IsMember(s, R) == <<owner[s], R>> \in RoomMembers

\* C22: a socket is joined to room:R, and causes an event to be emitted
\* into room:R, only if its user is a member of R.
C22_RoomAccessLimitedToMembers ==
    /\ \A s \in Sockets : \A R \in rooms[s] : IsMember(s, R)
    /\ \A em \in lastEmits : em.room \in Rooms => IsMember(em.from, em.room)

\* the joins alone are limited to members, and so is user_joined_room
C22_JoinsLimitedToMembers ==
    /\ \A s \in Sockets : \A R \in rooms[s] : IsMember(s, R)
    /\ \A em \in lastEmits :
           (em.room \in Rooms /\ em.name = "user_joined_room")
               => IsMember(em.from, em.room)

\* the positions in the log of the events with a name
DirectEvents(name) ==
    {i \in DOMAIN directEmitted : directEmitted[i].name = name}

\* the events of a name emitted to socket s
DirectEventsTo(name, s) ==
    {i \in DirectEvents(name) : directEmitted[i].socket = s}

\* the receiver is the sender, the payload is incomplete or the insert failed
DirectFailed(call) ==
    /\ call.pc # "none"
    /\ \/ call.receiverId = "" \/ call.text = "" \/ call.morse = ""
       \/ call.receiverId = owner[call.socket]
       \/ call.insert \in {"error", "throw"}

\* the sockets registered for a user: in the user's set and in connectedUsers
RegisteredFor(userId) ==
    {s \in Sockets : /\ Has(userSockets, userId)
                     /\ s \in userSockets[userId]
                     /\ s \in connectedUsers}

\* the step that delivers: each socket registered for the receiver before
\* the step has one new_direct_message after it, every other socket none
DeliversToRegistered ==
    (directCall.pc = "inserted" /\ directCall.insert = "ok"
       /\ directCall'.pc = "done") =>
        \A s \in Sockets :
            Cardinality({i \in DOMAIN directEmitted' :
                            /\ directEmitted'[i].name = "new_direct_message"
                            /\ directEmitted'[i].socket = s})
                = IF s \in RegisteredFor(directCall.receiverId) THEN 1 ELSE 0

\* what every state of a send_direct_message run satisfies: deliveries
\* only with the row stored, counts of the events on success and on failure
DirectAfterPersistence ==
    LET call == directCall
    IN  /\ (DirectEvents("new_direct_message") # {}
              \/ DirectEvents("direct_message_sent") # {}) =>
               /\ call.insert = "ok"
               /\ DirectMessageRow(call) \in directMessages
        /\ (call.pc = "done" /\ call.insert = "ok") =>
               /\ \A s \in Sockets :
                      Cardinality(DirectEventsTo("new_direct_message", s))
                          = IF s \in call.receivers THEN 1 ELSE 0
               /\ Cardinality(DirectEventsTo("direct_message_sent",
                                             call.socket)) = 1
               /\ Cardinality(DirectEvents("direct_message_sent")) = 1
               /\ DirectEvents("error") = {}
        /\ DirectFailed(call) =>
               /\ DirectEvents("new_direct_message") = {}
               /\ DirectEvents("direct_message_sent") = {}
               /\ call.pc = "done" =>
                      directEmitted = <<directEmitted[1]>>
                      /\ directEmitted[1].name = "error"
                      /\ directEmitted[1].socket = call.socket
        /\ (call.pc # "none" /\ call.receiverId = owner[call.socket]) =>
               directMessages = {}

---------------------------------------------------------------------------
(* Properties of the migration manager *)

\* the results are those of the first migrations in registration order
InRegistrationOrder ==
    /\ Len(results) <= Len(migrations)
    /\ \A k \in DOMAIN results : results[k].id = migrations[k]

\* a 'failed' entry is the last one, and ends the run
StopsAtFirstFailure ==
    /\ \A k \in DOMAIN results :
           results[k].status = "failed" =>
               k = Len(results) /\ runPc \in {"break", "returned"}
    /\ upInvoked \subseteq {results[k].id : k \in DOMAIN results}

\* C24: runMigrations processes the registered migrations in registration
\* order, reports a migration whose id is already applied as 'skipped'
\* without invoking its up, and stops at the first failure: the result list
\* ends with the 'failed' entry and no later migration's up is invoked or
\* reported.
C24_RunMigrationsOrderSkipStop ==
    /\ InRegistrationOrder
    /\ StopsAtFirstFailure
    /\ \A k \in DOMAIN results :
           /\ results[k].status = "skipped" => results[k].id \notin upInvoked
           /\ Includes(tableAtStart, results[k].id) =>
                  results[k].status = "skipped"
    /\ \A id \in upInvoked : ~Includes(tableAtStart, id)

\* C24 with 'already applied' read as: in the list getAppliedMigrations
\* returned to this call
C24_AsReadByTheCall ==
    /\ InRegistrationOrder
    /\ StopsAtFirstFailure
    /\ \A k \in DOMAIN results :
           /\ results[k].status = "skipped" => results[k].id \notin upInvoked
           /\ Includes(appliedMigrations, results[k].id) =>
                  results[k].status = "skipped"
    /\ \A id \in upInvoked : ~Includes(appliedMigrations, id)

\* C29: a migration that runMigrations reported as 'success' (and that was
\* not rolled back since) is recorded as applied, and rollbackLastMigration
\* reports 'success' only when the migration's record has been removed.
C29_SuccessIsRecorded ==
    /\ \A id \in MigrationIds :
           reported[id] = "success" => Includes(migrationsTable, id)
    /\ lastRollback.status = "success" =>
           ~Includes(migrationsTable, lastRollback.id)

---------------------------------------------------------------------------
(* Properties of the auth service *)

\* C30: token kinds are not interchangeable: authenticateToken lets a
\* request through only with a token the service issued with type
\* 'access', and POST /auth/refresh mints a new token pair only for a token
\* it issued with type 'refresh'.
C30_TokenKindsNotInterchangeable ==
    /\ authResult.status = "next" =>
           /\ authResult.token.type = "access"
           /\ authResult.token \in issuedTokens
           /\ authResult.user = authResult.token.sub
    /\ refreshResult.status = "200" =>
           /\ refreshResult.token.type = "refresh"
           /\ refreshResult.token \in issuedTokens

\* an issued refresh token was refused by authenticateToken and an issued
\* access token was refused by POST /auth/refresh
C30_Witness ==
    /\ authResult.token \in issuedTokens
    /\ authResult.token.type = "refresh"
    /\ authResult.status = "401"
    /\ refreshResult.token \in issuedTokens
    /\ refreshResult.token.type = "access"
    /\ refreshResult.status = "401"

====
